---- MODULE Spec2Model ----
(***************************************************************************)
(* Model of the fast-api-starter repository: the S3 routes of              *)
(* api/s3_api.py, the GCS route of api/gcs_api.py with                     *)
(* utils/gcs_utils.py, the routes of main.py with the PostgresClient of    *)
(* utils/db_utils.py, and generate_sku, delete_product, the creation of a  *)
(* product, the form reset and the authentication of the pages             *)
(* streamlit/product_mgmt_v1.py, streamlit/add_new_productv2.py and        *)
(* streamlit/test_streamlit.py.                                            *)
(*                                                                         *)
(* Specifications: Spec (S3 routes), SkuSpec, GcsSpec, ProductSpec         *)
(* (deletion), CreateSpec (creation and reset), RoundTripSpec (creation    *)
(* followed by deletion), AuthSpec, HealthSpec and RaceSpec (two           *)
(* deletions at the same time).                                            *)
(*                                                                         *)
(* Python strings are sequences of one-character strings, so that slicing, *)
(* filtering, case mapping, splitting and concatenation are computed.      *)
(***************************************************************************)
EXTENDS Integers, Sequences, FiniteSets, TLC

VARIABLES
    req,      \* the HTTP request handed to a route
    pc,       \* "pending" before the route handler ran, "done" after
    valid,    \* what validate_bucket_name returned in the handler
    calls,    \* the storage-service calls the handler issued, in order
    resp,     \* the HTTP response of the handler
    skuArgs,  \* the arguments of generate_sku
    now,      \* the clock: index of the current reading in ClockReadings
    sku,      \* what generate_sku returned
    db,       \* the rows of the products table
    objects,  \* the keys of the objects stored in the product bucket
    form,     \* the inputs of the delete_product_form
    outcome,  \* what the last product operation returned and what the page displayed
    s3ops,    \* the storage-service calls of the last product operation, in order
    replies,  \* what the storage service answered to each of calls, in order
    env,      \* the program run and its deployment: AWS_REGION, the bucket's location
    ui,       \* the values the widgets of the product page hold
    session,  \* st.session_state of the product page
    db_client, \* the PostgresClient main.py constructs when it is imported
    procs     \* the delete_product calls in progress, each with its position and locals

vars == <<req, pc, valid, calls, resp, skuArgs, now, sku, db, objects, form, outcome, s3ops,
          replies, env, ui, session, db_client, procs>>

---------------------------------------------------------------------------
(* Characters and the str methods the code uses *)

LowerChars == <<"a", "b", "c", "d", "e", "f", "g", "h", "i", "j", "k", "l", "m",
                "n", "o", "p", "q", "r", "s", "t", "u", "v", "w", "x", "y", "z">>

UpperChars == <<"A", "B", "C", "D", "E", "F", "G", "H", "I", "J", "K", "L", "M",
                "N", "O", "P", "Q", "R", "S", "T", "U", "V", "W", "X", "Y", "Z">>

DigitChars == <<"0", "1", "2", "3", "4", "5", "6", "7", "8", "9">>

Range(s) == {s[i] : i \in 1..Len(s)}

IsLowerChar(c) == c \in Range(LowerChars)

IsUpperChar(c) == c \in Range(UpperChars)

IsDigitChar(c) == c \in Range(DigitChars)

\* str.isalnum of one character
IsAlnumChar(c) == IsLowerChar(c) \/ IsUpperChar(c) \/ IsDigitChar(c)

\* str.upper of one character
UpperChar(c) ==
    IF IsLowerChar(c)
    THEN UpperChars[CHOOSE i \in 1..Len(LowerChars) : LowerChars[i] = c]
    ELSE c

\* str.lower of one character
LowerChar(c) ==
    IF IsUpperChar(c)
    THEN LowerChars[CHOOSE i \in 1..Len(UpperChars) : UpperChars[i] = c]
    ELSE c

\* s.upper()
str_upper(s) == [i \in 1..Len(s) |-> UpperChar(s[i])]

\* s.lower()
str_lower(s) == [i \in 1..Len(s) |-> LowerChar(s[i])]

\* s.islower(): at least one cased character, and no cased character is uppercase
str_islower(s) ==
    /\ \E i \in 1..Len(s) : IsLowerChar(s[i])
    /\ \A i \in 1..Len(s) : ~IsUpperChar(s[i])

\* s.isalnum(): non-empty and every character alphanumeric
str_isalnum(s) ==
    /\ Len(s) > 0
    /\ \A i \in 1..Len(s) : IsAlnumChar(s[i])

\* s.replace(old, "") for a one-character old
str_remove(s, old) == SelectSeq(s, LAMBDA c : c # old)

\* s.endswith(suffix)
str_endswith(s, suffix) ==
    /\ Len(s) >= Len(suffix)
    /\ SubSeq(s, Len(s) - Len(suffix) + 1, Len(s)) = suffix

\* s.startswith(prefix)
str_startswith(s, prefix) ==
    /\ Len(s) >= Len(prefix)
    /\ SubSeq(s, 1, Len(prefix)) = prefix

\* s[:k]
str_head(s, k) == SubSeq(s, 1, IF Len(s) < k THEN Len(s) ELSE k)

\* c repeated n times
Repeat(c, n) == [i \in 1..n |-> c]

\* every sequence over alphabet of length 0..n
SeqsUpTo(alphabet, n) == UNION {[1..k -> alphabet] : k \in 0..n}

---------------------------------------------------------------------------
(* api/s3_api.py: validate_bucket_name *)

MinNameLen == 3

MaxNameLen == 63

validate_bucket_name(bucket_name) ==
    IF ~(MinNameLen <= Len(bucket_name) /\ Len(bucket_name) <= MaxNameLen)
    THEN FALSE
    ELSE IF ~str_islower(bucket_name)
    THEN FALSE
    ELSE IF ~str_isalnum(str_remove(bucket_name, "-"))
    THEN FALSE
    ELSE TRUE

---------------------------------------------------------------------------
(* Optional values: None is the empty tuple, a present value x is <<x>> *)

None == <<>>

Some(x) == <<x>>

---------------------------------------------------------------------------
(* api/s3_api.py: literals *)

BUCKET_PREFIX == <<"b", "u", "c", "k", "e", "t", "-">>

BUCKET_PREFIX_CAPITAL == <<"B", "u", "c", "k", "e", "t", "-">>

US_EAST_1 == <<"u", "s", "-", "e", "a", "s", "t", "-", "1">>

EU_WEST_1 == <<"e", "u", "-", "w", "e", "s", "t", "-", "1">>

DEFAULT_FOLDER == <<"n", "e", "w", "-", "f", "o", "l", "d", "e", "r", "/">>

SLASH == <<"/">>

URL_SCHEME == <<"h", "t", "t", "p", "s", ":", "/", "/">>

URL_S3 == <<".", "s", "3", ".">>

URL_DOMAIN == <<".", "a", "m", "a", "z", "o", "n", "a", "w", "s", ".", "c", "o", "m", "/">>

IMAGE_SUFFIXES == { <<".", "p", "n", "g">>, <<".", "j", "p", "g">>, <<".", "j", "p", "e", "g">>,
                    <<".", "g", "i", "f">>, <<".", "b", "m", "p">> }

\* uuid.uuid4().hex[:8]
HexLen == 8

---------------------------------------------------------------------------
(* The storage service as the routes see it: each call either succeeds or  *)
(* raises. ClientErrorCodes are the codes of botocore ClientError;         *)
(* OtherErrors are exceptions that are not ClientError (a network fault).  *)

ClientErrorCodes == {"BucketAlreadyExists", "BucketAlreadyOwnedByYou", "AccessDenied",
                     "NoSuchBucket", "InternalError"}

OtherErrors == {"EndpointConnectionError"}

VendorOutcomes == {"ok"} \cup ClientErrorCodes \cup OtherErrors

\* the outcomes of each kind of call: a create does not find the bucket missing, and
\* only a create finds it existing
ListBucketsOutcomes == VendorOutcomes \ {"NoSuchBucket", "BucketAlreadyExists", "BucketAlreadyOwnedByYou"}

CreateOutcomes == VendorOutcomes \ {"NoSuchBucket"}

BucketOutcomes == VendorOutcomes \ {"BucketAlreadyExists", "BucketAlreadyOwnedByYou"}

\* what get_bucket_location answers in LocationConstraint
Locations == {None, Some(EU_WEST_1)}

\* file names under a listed prefix; the empty name is the folder marker object
FILE_PNG_UPPER == <<"a", ".", "P", "N", "G">>

FILE_TXT == <<"n", ".", "t", "x", "t">>

Listings == { <<>>, << <<>> >>, <<FILE_PNG_UPPER, FILE_TXT>> }

PrefixListings == { <<>>, << <<"p", "/">> >>, << <<"p", "/">>, <<"q", "/">> >> }

\* the response of list_objects_v2(Bucket, Prefix): no "Contents" key when nothing matches
ListObjectsResponse(prefix, files) ==
    IF files = <<>>
    THEN [KeyCount |-> 0]
    ELSE [KeyCount |-> Len(files),
          Contents |-> [i \in 1..Len(files) |-> [Key |-> prefix \o files[i], Size |-> Len(files[i])]]]

\* the response of list_objects_v2(Bucket, Delimiter): no "CommonPrefixes" key when there are none
ListPrefixesResponse(prefixes) ==
    IF prefixes = <<>>
    THEN [KeyCount |-> 0]
    ELSE [KeyCount |-> 0,
          CommonPrefixes |-> [i \in 1..Len(prefixes) |-> [Prefix |-> prefixes[i]]]]

---------------------------------------------------------------------------
(* api/s3_api.py: responses *)

HTTPException(status_code, detail) ==
    [kind |-> "HTTPException", status |-> status_code, detail |-> detail]

OkResponse(status_code, body) ==
    [kind |-> "ok", status |-> status_code, body |-> body]

\* an exception no except clause of the route catches leaves the route as it is
Unhandled(exception) ==
    [kind |-> "unhandled", status |-> 500, exception |-> exception]

InvalidName ==
    HTTPException(400, "Invalid bucket name. Must be 3-63 characters, lowercase, alphanumeric or hyphens.")

\* the except clauses of create_bucket and create_bucket_with_folder
CreateError(error) ==
    IF error \notin ClientErrorCodes THEN Unhandled(error)
    ELSE IF error = "BucketAlreadyExists" THEN HTTPException(409, "Bucket {bucket_name} already exists")
    ELSE IF error = "BucketAlreadyOwnedByYou" THEN HTTPException(409, "Bucket {bucket_name} already owned by you")
    ELSE HTTPException(500, error)

\* the except clauses of get_bucket, get_folder_contents, list_bucket_folders and
\* get_public_image_urls_in_folder
ReadError(error) ==
    IF error = "NoSuchBucket" THEN HTTPException(404, "Bucket {bucket_name} does not exist")
    ELSE IF error \notin ClientErrorCodes THEN Unhandled(error)
    ELSE IF error = "AccessDenied" THEN HTTPException(403, "Access denied for bucket {bucket_name}")
    ELSE HTTPException(500, error)

\* a handler that called validate_bucket_name, which returned v
Handled(v, c, r) == [valid |-> Some(v), calls |-> c, resp |-> r]

\* a handler that does not call validate_bucket_name
NotValidated(c, r) == [valid |-> None, calls |-> c, resp |-> r]

---------------------------------------------------------------------------
(* api/s3_api.py: the route handlers. Each takes the request r and what    *)
(* the storage service answers to the calls it issues, and gives what      *)
(* validate_bucket_name returned, the calls issued and the response.       *)

\* f"bucket-{uuid.uuid4().hex[:8]}"
GenerateBucketNameCapital(hex) == BUCKET_PREFIX_CAPITAL \o hex

GenerateBucketName(hex) == BUCKET_PREFIX \o hex

\* "if not bucket_name": None and the empty string are both replaced
BucketNameOrGenerated(r, hex) ==
    IF r.bucket_name = None \/ r.bucket_name = Some(<<>>)
    THEN GenerateBucketName(hex)
    ELSE r.bucket_name[1]

\* the create_bucket call of lines 123-129 and 234-240
CreateBucketCallAlwaysConstraint(bucket_name, region) ==
    [op |-> "create_bucket", Bucket |-> bucket_name,
     CreateBucketConfiguration |-> [LocationConstraint |-> region]]

CreateBucketCall(bucket_name, region) ==
    IF region = US_EAST_1
    THEN [op |-> "create_bucket", Bucket |-> bucket_name]
    ELSE [op |-> "create_bucket", Bucket |-> bucket_name,
          CreateBucketConfiguration |-> [LocationConstraint |-> region]]

\* "if not folder_name.endswith('/'): folder_name += '/'"
NormalizeFolderAlwaysAppend(folder_name) == folder_name \o SLASH

NormalizeFolder(folder_name) ==
    IF ~str_endswith(folder_name, SLASH)
    THEN folder_name \o SLASH
    ELSE folder_name

list_buckets(o_list, names) ==
    LET call == [op |-> "list_buckets"] IN
    IF o_list = "ok"
    THEN NotValidated(<<call>>, OkResponse(200, [buckets |-> names]))
    ELSE IF o_list \in ClientErrorCodes
    THEN NotValidated(<<call>>, HTTPException(500, o_list))
    ELSE NotValidated(<<call>>, Unhandled(o_list))

create_bucket(r, hex, o_create) ==
    LET bucket_name == BucketNameOrGenerated(r, hex)
        call == CreateBucketCall(bucket_name, r.region)
    IN  IF ~validate_bucket_name(bucket_name)
        THEN Handled(FALSE, <<>>, InvalidName)
        ELSE IF o_create = "ok"
        THEN Handled(TRUE, <<call>>,
                     OkResponse(201, [message |-> "Bucket created successfully",
                                      bucket_name |-> bucket_name,
                                      region |-> r.region]))
        ELSE Handled(TRUE, <<call>>, CreateError(o_create))

get_bucket_calls_first(r, o_location, location) ==
    LET bucket_name == r.bucket_name[1]
        call == [op |-> "get_bucket_location", Bucket |-> bucket_name]
    IN  IF ~validate_bucket_name(bucket_name)
        THEN Handled(FALSE, <<call>>, InvalidName)
        ELSE IF o_location = "ok"
        THEN Handled(TRUE, <<call>>,
                     OkResponse(200, [message |-> "Bucket found successfully",
                                      bucket_name |-> bucket_name,
                                      region |-> IF location = None \/ location = Some(<<>>)
                                                 THEN US_EAST_1 ELSE location[1]]))
        ELSE Handled(TRUE, <<call>>, ReadError(o_location))

get_bucket(r, o_location, location) ==
    LET bucket_name == r.bucket_name[1]
        call == [op |-> "get_bucket_location", Bucket |-> bucket_name]
    IN  IF ~validate_bucket_name(bucket_name)
        THEN Handled(FALSE, <<>>, InvalidName)
        ELSE IF o_location = "ok"
        THEN Handled(TRUE, <<call>>,
                     OkResponse(200, [message |-> "Bucket found successfully",
                                      bucket_name |-> bucket_name,
                                      region |-> IF location = None \/ location = Some(<<>>)
                                                 THEN US_EAST_1 ELSE location[1]]))
        ELSE Handled(TRUE, <<call>>, ReadError(o_location))

create_bucket_with_folder(r, hex, o_create, o_put) ==
    LET bucket_name == BucketNameOrGenerated(r, hex)
        create == CreateBucketCall(bucket_name, r.region)
        put == [op |-> "put_object", Bucket |-> bucket_name, Key |-> r.folder_name, Body |-> <<>>]
    IN  IF ~validate_bucket_name(bucket_name)
        THEN Handled(FALSE, <<>>, InvalidName)
        ELSE IF o_create # "ok"
        THEN Handled(TRUE, <<create>>, CreateError(o_create))
        ELSE IF o_put # "ok"
        THEN Handled(TRUE, <<create, put>>, CreateError(o_put))
        ELSE Handled(TRUE, <<create, put>>,
                     OkResponse(201, [message |-> "Bucket and folder created successfully",
                                      bucket_name |-> bucket_name,
                                      region |-> r.region,
                                      folder_name |-> r.folder_name]))

get_folder_contents(r, o_list, files) ==
    LET bucket_name == r.bucket_name[1]
        folder_name == NormalizeFolder(r.folder_name)
        call == [op |-> "list_objects_v2", Bucket |-> bucket_name, Prefix |-> folder_name]
        response == ListObjectsResponse(folder_name, files)
    IN  IF ~validate_bucket_name(bucket_name)
        THEN Handled(FALSE, <<>>, InvalidName)
        ELSE IF o_list # "ok"
        THEN Handled(TRUE, <<call>>, ReadError(o_list))
        ELSE IF "Contents" \notin DOMAIN response
        THEN Handled(TRUE, <<call>>,
                     OkResponse(200, [message |-> "Folder is empty or does not exist",
                                      objects |-> <<>>]))
        ELSE Handled(TRUE, <<call>>,
                     OkResponse(200, [message |-> "Folder contents retrieved successfully",
                                      bucket_name |-> bucket_name,
                                      folder_name |-> folder_name,
                                      objects |-> [i \in 1..Len(response.Contents) |->
                                                     [key |-> response.Contents[i].Key,
                                                      size |-> response.Contents[i].Size]]]))

list_bucket_folders_none_is_not_found(r, o_list, prefixes) ==
    LET bucket_name == r.bucket_name[1]
        call == [op |-> "list_objects_v2", Bucket |-> bucket_name, Delimiter |-> SLASH]
        response == ListPrefixesResponse(prefixes)
    IN  IF ~validate_bucket_name(bucket_name)
        THEN Handled(FALSE, <<>>, InvalidName)
        ELSE IF o_list # "ok"
        THEN Handled(TRUE, <<call>>, ReadError(o_list))
        ELSE IF "CommonPrefixes" \notin DOMAIN response
        THEN Handled(TRUE, <<call>>, HTTPException(404, "No folders found in the bucket"))
        ELSE Handled(TRUE, <<call>>,
                     OkResponse(200, [message |-> "Folders retrieved successfully",
                                      bucket_name |-> bucket_name,
                                      folders |-> [i \in 1..Len(response.CommonPrefixes) |->
                                                     response.CommonPrefixes[i].Prefix]]))

list_bucket_folders(r, o_list, prefixes) ==
    LET bucket_name == r.bucket_name[1]
        call == [op |-> "list_objects_v2", Bucket |-> bucket_name, Delimiter |-> SLASH]
        response == ListPrefixesResponse(prefixes)
    IN  IF ~validate_bucket_name(bucket_name)
        THEN Handled(FALSE, <<>>, InvalidName)
        ELSE IF o_list # "ok"
        THEN Handled(TRUE, <<call>>, ReadError(o_list))
        ELSE IF "CommonPrefixes" \notin DOMAIN response
        THEN Handled(TRUE, <<call>>,
                     OkResponse(200, [message |-> "No folders found in the bucket",
                                      folders |-> <<>>]))
        ELSE Handled(TRUE, <<call>>,
                     OkResponse(200, [message |-> "Folders retrieved successfully",
                                      bucket_name |-> bucket_name,
                                      folders |-> [i \in 1..Len(response.CommonPrefixes) |->
                                                     response.CommonPrefixes[i].Prefix]]))

\* key.lower().endswith((".png", ".jpg", ".jpeg", ".gif", ".bmp"))
IsImageKey(key) == \E suffix \in IMAGE_SUFFIXES : str_endswith(str_lower(key), suffix)

\* f"https://{bucket_name}.s3.{region}.amazonaws.com/{key}"
PublicUrl(bucket_name, region, key) ==
    URL_SCHEME \o bucket_name \o URL_S3 \o region \o URL_DOMAIN \o key

get_public_image_urls_in_folder(r, o_location, location, o_list, files) ==
    LET bucket_name == r.bucket_name[1]
        folder_name == NormalizeFolder(r.folder_name)
        locate == [op |-> "get_bucket_location", Bucket |-> bucket_name]
        region == IF location = None THEN US_EAST_1 ELSE location[1]
        list == [op |-> "list_objects_v2", Bucket |-> bucket_name, Prefix |-> folder_name,
                 region_name |-> region]
        response == ListObjectsResponse(folder_name, files)
        images == SelectSeq(response.Contents, LAMBDA obj : IsImageKey(obj.Key))
    IN  IF ~validate_bucket_name(bucket_name)
        THEN Handled(FALSE, <<>>, InvalidName)
        ELSE IF o_location # "ok"
        THEN Handled(TRUE, <<locate>>, ReadError(o_location))
        ELSE IF o_list # "ok"
        THEN Handled(TRUE, <<locate, list>>, ReadError(o_list))
        ELSE IF "Contents" \notin DOMAIN response
        THEN Handled(TRUE, <<locate, list>>,
                     OkResponse(200, [message |-> "Folder is empty or does not exist",
                                      image_urls |-> <<>>]))
        ELSE Handled(TRUE, <<locate, list>>,
                     OkResponse(200, [message |-> "Image URLs retrieved successfully",
                                      bucket_name |-> bucket_name,
                                      folder_name |-> folder_name,
                                      image_urls |-> [i \in 1..Len(images) |->
                                                        [key |-> images[i].Key,
                                                         url |-> PublicUrl(bucket_name, region, images[i].Key)]]]))

---------------------------------------------------------------------------
(* The requests the S3 routes are given *)

\* bound: the length of the varied part of a bucket name
MaxBody == 3

NameChars == {"a", "B", "1", "-", "_"}

\* a bucket name is a varied part followed by 0 or 61 digits, so that names of
\* length 0..MaxBody and 61..61+MaxBody occur, on both sides of 3 and of 63
PadLens == {0, 61}

BucketNames == { body \o Repeat("1", n) : body \in SeqsUpTo(NameChars, MaxBody), n \in PadLens }

Regions == {US_EAST_1, EU_WEST_1, <<>>}

FolderNames == { <<>>, SLASH, <<"p">>, <<"p", "/">>, <<"p", "/", "/">>, DEFAULT_FOLDER }

\* the hex digits the model draws uuid4().hex from
HexChars == {"0", "f"}

HexSuffixes == [1..HexLen -> HexChars]

BucketListings == { <<>>, << <<"a", "b", "c">> >> }

Requests ==
    { [endpoint |-> "list_buckets"] }
    \cup { [endpoint |-> "create_bucket", bucket_name |-> b, region |-> g] :
             b \in {None} \cup {Some(n) : n \in BucketNames}, g \in Regions }
    \cup { [endpoint |-> "get_bucket", bucket_name |-> Some(n)] : n \in BucketNames }
    \cup { [endpoint |-> "create_bucket_with_folder", bucket_name |-> b, region |-> g,
            folder_name |-> f] :
             b \in {None} \cup {Some(n) : n \in BucketNames}, g \in Regions, f \in FolderNames }
    \cup { [endpoint |-> e, bucket_name |-> Some(n), folder_name |-> f] :
             e \in {"get_folder_contents", "get_public_image_urls_in_folder"},
             n \in BucketNames, f \in FolderNames }
    \cup { [endpoint |-> "list_bucket_folders", bucket_name |-> Some(n)] : n \in BucketNames }

---------------------------------------------------------------------------
(* Specification Spec: one request to an S3 route. The routes keep no      *)
(* state between requests, so a behaviour is one request and its handling. *)

IdleSku == /\ skuArgs = None /\ now = 1 /\ sku = None

IdleProduct == /\ db = {} /\ objects = {} /\ form = None /\ outcome = None /\ s3ops = <<>>

IdleS3 ==
    /\ req = None /\ pc = "idle" /\ valid = None /\ calls = <<>> /\ resp = None
    /\ replies = <<>>

IdleCreate == /\ env = None /\ ui = None /\ session = None

IdleHealth == db_client = None

IdleRace == procs = None

Init ==
    /\ req \in Requests
    /\ pc = "pending"
    /\ valid = None
    /\ calls = <<>>
    /\ resp = None
    /\ replies = <<>>
    /\ IdleSku
    /\ IdleProduct
    /\ IdleCreate
    /\ IdleHealth
    /\ IdleRace

\* what the storage service answers to one call: it raises, or it responds
Raised(error) == [error |-> Some(error)]

Answered(response) == [error |-> None, response |-> response]

Reply(o, response) == IF o = "ok" THEN Answered(response) ELSE Raised(o)

\* the handler returns h; answers are the storage service's replies to the calls it
\* could issue, of which those to the calls it did issue are kept
Respond(h, answers) ==
    /\ valid' = h.valid
    /\ calls' = h.calls
    /\ resp' = h.resp
    /\ replies' = SubSeq(answers, 1, Len(h.calls))
    /\ pc' = "done"
    /\ UNCHANGED <<req, skuArgs, now, sku, db, objects, form, outcome, s3ops, env, ui, session,
                   db_client, procs>>

\* the answers to draw for a call: all of them when the handler issues the call,
\* one when it does not (the answer is then never read)
Drawn(issued, answers) == IF issued THEN answers ELSE {CHOOSE a \in answers : TRUE}

NameOmitted(r) == r.bucket_name = None \/ r.bucket_name = Some(<<>>)

ListBuckets ==
    /\ pc = "pending" /\ req.endpoint = "list_buckets"
    /\ \E o \in ListBucketsOutcomes :
       \E names \in Drawn(o = "ok", BucketListings) :
          Respond(list_buckets(o, names), <<Reply(o, [Buckets |-> names])>>)

CreateBucket ==
    /\ pc = "pending" /\ req.endpoint = "create_bucket"
    /\ \E hex \in Drawn(NameOmitted(req), HexSuffixes) :
       \E o \in Drawn(validate_bucket_name(BucketNameOrGenerated(req, hex)), CreateOutcomes) :
          Respond(create_bucket(req, hex, o),
                  <<Reply(o, [Location |-> SLASH \o BucketNameOrGenerated(req, hex)])>>)

GetBucket ==
    /\ pc = "pending" /\ req.endpoint = "get_bucket"
    /\ \E o \in Drawn(validate_bucket_name(req.bucket_name[1]), BucketOutcomes) :
       \E location \in Drawn(o = "ok", Locations) :
          Respond(get_bucket(req, o, location),
                  <<Reply(o, [LocationConstraint |-> location])>>)

CreateBucketWithFolder ==
    /\ pc = "pending" /\ req.endpoint = "create_bucket_with_folder"
    /\ \E hex \in Drawn(NameOmitted(req), HexSuffixes) :
       \E o1 \in Drawn(validate_bucket_name(BucketNameOrGenerated(req, hex)), CreateOutcomes) :
       \E o2 \in Drawn(o1 = "ok", BucketOutcomes) :
          Respond(create_bucket_with_folder(req, hex, o1, o2),
                  <<Reply(o1, [Location |-> SLASH \o BucketNameOrGenerated(req, hex)]),
                    Reply(o2, [ETag |-> "etag"])>>)

GetFolderContents ==
    /\ pc = "pending" /\ req.endpoint = "get_folder_contents"
    /\ \E o \in Drawn(validate_bucket_name(req.bucket_name[1]), BucketOutcomes) :
       \E files \in Drawn(o = "ok", Listings) :
          Respond(get_folder_contents(req, o, files),
                  <<Reply(o, ListObjectsResponse(NormalizeFolder(req.folder_name), files))>>)

ListBucketFolders ==
    /\ pc = "pending" /\ req.endpoint = "list_bucket_folders"
    /\ \E o \in Drawn(validate_bucket_name(req.bucket_name[1]), BucketOutcomes) :
       \E prefixes \in Drawn(o = "ok", PrefixListings) :
          Respond(list_bucket_folders(req, o, prefixes),
                  <<Reply(o, ListPrefixesResponse(prefixes))>>)

GetPublicImageUrlsInFolder ==
    /\ pc = "pending" /\ req.endpoint = "get_public_image_urls_in_folder"
    /\ \E o1 \in Drawn(validate_bucket_name(req.bucket_name[1]), BucketOutcomes) :
       \E location \in Drawn(o1 = "ok", Locations) :
       \E o2 \in Drawn(o1 = "ok", BucketOutcomes) :
       \E files \in Drawn(o2 = "ok", Listings) :
          Respond(get_public_image_urls_in_folder(req, o1, location, o2, files),
                  <<Reply(o1, [LocationConstraint |-> location]),
                    Reply(o2, ListObjectsResponse(NormalizeFolder(req.folder_name), files))>>)

Next ==
    \/ ListBuckets
    \/ CreateBucket
    \/ GetBucket
    \/ CreateBucketWithFolder
    \/ GetFolderContents
    \/ ListBucketFolders
    \/ GetPublicImageUrlsInFolder

Spec == Init /\ [][Next]_vars

---------------------------------------------------------------------------
(* Claims about the S3 routes, checked under Spec *)

Validated == pc = "done" /\ req.endpoint # "list_buckets"

CreateEndpoints == {"create_bucket", "create_bucket_with_folder"}

FolderListEndpoints == {"get_folder_contents", "get_public_image_urls_in_folder"}

\* the handler of a folder-scoped listing route reached its list_objects_v2 call
FolderListed ==
    /\ pc = "done" /\ req.endpoint \in FolderListEndpoints
    /\ calls # <<>> /\ calls[Len(calls)].op = "list_objects_v2"

\* the rule as the claim states it:
\* 3 <= len(s) <= 63 and s == s.lower() and all(c.isalnum() or c == '-' for c in s)
C1_ClaimedRule(s) ==
    /\ 3 <= Len(s) /\ Len(s) <= 63
    /\ s = str_lower(s)
    /\ \A i \in 1..Len(s) : IsAlnumChar(s[i]) \/ s[i] = "-"

\* C1: validate_bucket_name(s) returns True if and only if s has 3..63 characters,
\* equals s.lower() and holds only alphanumeric characters and '-'; so a name of
\* digits and hyphens of valid length is accepted.
C1_ValidateIffClaimedRule ==
    (Validated /\ ~NameOmitted(req))
        => valid = Some(C1_ClaimedRule(req.bucket_name[1]))

\* C2: when validate_bucket_name rejects the name, the request ends with HTTP 400
\* and the handler has issued no storage-service call.
C2_RejectedNameNoVendorCall ==
    /\ (Validated /\ valid = Some(FALSE))
          => (resp.kind = "HTTPException" /\ resp.status = 400 /\ calls = <<>>)
    /\ (Validated /\ ~NameOmitted(req) /\ ~validate_bucket_name(req.bucket_name[1]))
          => (resp.status = 400 /\ calls = <<>>)

C2_Witness ==
    /\ pc = "done"
    /\ req.endpoint = "get_bucket"
    /\ req.bucket_name = Some(<<"a", "B", "1">>)
    /\ resp.status = 400
    /\ calls = <<>>

\* C3: the vendor create call of create_bucket and create_bucket_with_folder carries
\* no location constraint exactly when the region is "us-east-1", and otherwise
\* carries a location constraint equal to the region.
C3_LocationConstraintIffNotUsEast1 ==
    (pc = "done" /\ req.endpoint \in CreateEndpoints /\ calls # <<>>)
        => /\ calls[1].op = "create_bucket"
           /\ ("CreateBucketConfiguration" \notin DOMAIN calls[1]) <=> (req.region = US_EAST_1)
           /\ (req.region # US_EAST_1)
                 => calls[1].CreateBucketConfiguration = [LocationConstraint |-> req.region]

C3_Witness ==
    /\ pc = "done"
    /\ req.endpoint = "create_bucket_with_folder"
    /\ req.region = EU_WEST_1
    /\ Len(calls) = 2
    /\ calls[1].CreateBucketConfiguration.LocationConstraint = EU_WEST_1

\* C6: a bucket name generated because the caller omitted bucket_name is "bucket-"
\* followed by 8 lowercase hex characters and is accepted by validate_bucket_name,
\* so the request never ends with HTTP 400.
C6_GeneratedNameIsValid ==
    (pc = "done" /\ req.endpoint \in CreateEndpoints /\ NameOmitted(req))
        => /\ valid = Some(TRUE)
           /\ resp.status # 400
           /\ calls # <<>>
           /\ Len(calls[1].Bucket) = 15
           /\ SubSeq(calls[1].Bucket, 1, 7) = <<"b", "u", "c", "k", "e", "t", "-">>
           /\ \A i \in 8..15 : IsDigitChar(calls[1].Bucket[i]) \/ IsLowerChar(calls[1].Bucket[i])

C6_Witness ==
    /\ pc = "done"
    /\ req.endpoint = "create_bucket"
    /\ req.bucket_name = None
    /\ resp.status = 201
    /\ resp.body.bucket_name = <<"b", "u", "c", "k", "e", "t", "-">> \o Repeat("0", 8)

\* C7: the folder normalization of get_folder_contents and
\* get_public_image_urls_in_folder is idempotent, its result ends with '/', and an
\* input that already ends with '/' is left unchanged.
C7_NormalizeIdempotent ==
    FolderListed
        => LET f == req.folder_name
               prefix == calls[Len(calls)].Prefix
           IN  /\ prefix[Len(prefix)] = "/"
               /\ NormalizeFolder(prefix) = prefix
               /\ (Len(f) > 0 /\ f[Len(f)] = "/") => prefix = f
               /\ (Len(f) = 0 \/ f[Len(f)] # "/") => prefix = f \o <<"/">>

C7_Witness ==
    /\ pc = "done"
    /\ req.endpoint = "get_public_image_urls_in_folder"
    /\ req.folder_name = <<"p", "/">>
    /\ Len(calls) = 2
    /\ calls[2].Prefix = <<"p", "/">>

ExactlyOneTrailingSlash(s) ==
    /\ Len(s) >= 1 /\ s[Len(s)] = "/"
    /\ Len(s) >= 2 => s[Len(s) - 1] # "/"

\* C8: every prefix or key a folder-scoped operation hands to the storage service
\* ends with exactly one trailing '/'; stated here for the operation the claim
\* names expressly, the key create_bucket_with_folder passes to put_object for a
\* non-empty folder_name.
C8_PutObjectKeyEndsWithOneSlash ==
    (/\ pc = "done" /\ req.endpoint = "create_bucket_with_folder"
     /\ req.folder_name # <<>> /\ Len(calls) = 2)
        => ExactlyOneTrailingSlash(calls[2].Key)

---------------------------------------------------------------------------
(* Claims about the error handling of the S3 routes, checked under Spec *)

\* the last storage call of the request raised
VendorFailed == pc = "done" /\ replies # <<>> /\ replies[Len(replies)].error # None

\* what it raised
VendorError == replies[Len(replies)].error[1]

\* the table of the claim
C12_Table(error) ==
    IF error = "AccessDenied" THEN 403
    ELSE IF error = "NoSuchBucket" THEN 404
    ELSE IF error \in {"BucketAlreadyExists", "BucketAlreadyOwnedByYou"} THEN 409
    ELSE 500

C12_Endpoints == {"create_bucket", "create_bucket_with_folder", "get_bucket",
                  "get_folder_contents", "list_bucket_folders",
                  "get_public_image_urls_in_folder"}

\* C12: on each of the six bucket-scoped routes a vendor error code is mapped by one
\* table: AccessDenied gives 403, NoSuchBucket 404, BucketAlreadyExists and
\* BucketAlreadyOwnedByYou 409, any other code 500.
C12_OneFixedTable ==
    (VendorFailed /\ req.endpoint \in C12_Endpoints /\ VendorError \in ClientErrorCodes)
        => (resp.kind = "HTTPException" /\ resp.status = C12_Table(VendorError))

\* C13: no failure of a storage call leaves an S3 route as the raw exception: the
\* response is an HTTPException, with status 503 for a vendor or network fault that
\* is not a vendor error code.
C13_NoRawException ==
    VendorFailed
        => /\ resp.kind = "HTTPException"
           /\ VendorError \in OtherErrors => resp.status = 503

\* the common prefixes the store returned to list_bucket_folders, in its order
C15_StorePrefixes ==
    LET response == replies[1].response IN
    IF "CommonPrefixes" \in DOMAIN response
    THEN [i \in 1..Len(response.CommonPrefixes) |-> response.CommonPrefixes[i].Prefix]
    ELSE <<>>

\* C15: list_bucket_folders on a bucket for which the store returns no common
\* prefixes responds 200 with an empty folders list; otherwise the folders list is
\* the store's common prefixes in the store's order.
C15_FoldersAreStorePrefixes ==
    (/\ pc = "done" /\ req.endpoint = "list_bucket_folders"
     /\ replies # <<>> /\ replies[1].error = None)
        => /\ resp.kind = "ok" /\ resp.status = 200
           /\ resp.body.folders = C15_StorePrefixes

\* the store answered without a CommonPrefixes key
C15_Witness ==
    /\ pc = "done" /\ req.endpoint = "list_bucket_folders"
    /\ replies # <<>> /\ replies[1].error = None
    /\ "CommonPrefixes" \notin DOMAIN replies[1].response
    /\ resp.status = 200
    /\ resp.body.folders = <<>>

---------------------------------------------------------------------------
(* streamlit/product_mgmt_v1.py: ProductManager.generate_sku               *)
(* (streamlit/add_new_productv2.py: generate_sku is the same code)         *)

CATEGORY_OPTIONS == { <<"M", "e", "n">>, <<"W", "o", "m", "e", "n">>, <<"U", "n", "i", "s", "e", "x">>, <<"K", "i", "d", "s">>, <<"A", "c", "c", "e", "s", "s", "o", "r", "i", "e", "s">> }

TYPE_OPTIONS == { <<"T", "-", "s", "h", "i", "r", "t">>, <<"H", "o", "o", "d", "i", "e">>, <<"L", "o", "n", "g", " ", "S", "l", "e", "e", "v", "e">>, <<"O", "t", "h", "e", "r">> }

COLOR_OPTIONS == { <<"r", "e", "d">>, <<"b", "l", "u", "e">>, <<"g", "r", "e", "e", "n">>, <<"b", "l", "a", "c", "k">>, <<"w", "h", "i", "t", "e">> }

\* the readings of datetime.now() the model takes, in the order of time
ClockReadings ==
    << [year |-> 1999, month |-> 12, day |-> 31, hour |-> 23, minute |-> 59, second |-> 59],
       [year |-> 2000, month |-> 1, day |-> 1, hour |-> 0, minute |-> 0, second |-> 0],
       [year |-> 2024, month |-> 1, day |-> 2, hour |-> 3, minute |-> 4, second |-> 0],
       [year |-> 2024, month |-> 1, day |-> 2, hour |-> 3, minute |-> 4, second |-> 59],
       [year |-> 2024, month |-> 1, day |-> 2, hour |-> 3, minute |-> 5, second |-> 0],
       [year |-> 2110, month |-> 11, day |-> 12, hour |-> 13, minute |-> 14, second |-> 15] >>

\* a strftime field of two zero-padded decimal digits
TwoDigits(n) == <<DigitChars[((n \div 10) % 10) + 1], DigitChars[(n % 10) + 1]>>

\* t.strftime("%y%m%d%H%M%S"): the format with the seconds kept
strftime_yymmddHHMMSS(t) ==
    TwoDigits(t.year % 100) \o TwoDigits(t.month) \o TwoDigits(t.day)
        \o TwoDigits(t.hour) \o TwoDigits(t.minute) \o TwoDigits(t.second)

\* t.strftime("%y%m%d%H%M")
strftime_yymmddHHMM(t) ==
    TwoDigits(t.year % 100) \o TwoDigits(t.month) \o TwoDigits(t.day)
        \o TwoDigits(t.hour) \o TwoDigits(t.minute)

\* "".join(c for c in text[:k] if c.isalnum()).upper()
AttributeCode(text, k) == str_upper(SelectSeq(str_head(text, k), IsAlnumChar))

generate_sku_title_first(title, category, color, type, t) ==
    AttributeCode(title, 3) \o AttributeCode(category, 2) \o AttributeCode(type, 2)
        \o AttributeCode(color, 2) \o <<"-">> \o strftime_yymmddHHMM(t)

generate_sku_filter_then_slice(title, category, color, type, t) ==
    str_upper(str_head(SelectSeq(category, IsAlnumChar), 2))
        \o str_upper(str_head(SelectSeq(type, IsAlnumChar), 2))
        \o str_upper(str_head(SelectSeq(color, IsAlnumChar), 2))
        \o str_upper(str_head(SelectSeq(title, IsAlnumChar), 3))
        \o <<"-">> \o strftime_yymmddHHMM(t)

\* t is the reading datetime.now() gives during the call
generate_sku(title, category, color, type, t) ==
    LET title_code == AttributeCode(title, 3)
        category_code == AttributeCode(category, 2)
        color_code == AttributeCode(color, 2)
        type_code == AttributeCode(type, 2)
        unique_id == strftime_yymmddHHMM(t)
    IN  category_code \o type_code \o color_code \o title_code \o <<"-">> \o unique_id

---------------------------------------------------------------------------
(* Specification SkuSpec: calls of generate_sku while the clock advances *)

STRENGTH_AND_HONOR == <<"S", "t", "r", "e", "n", "g", "t", "h", " ", "A", "n", "d", " ", "H", "o", "n", "o", "r">>

SkuTitles == { STRENGTH_AND_HONOR, <<>>, <<"-", "-", "-", "x">>, <<"a", "!", "b", "c">>, <<"9", "z">> }

SkuCategories == CATEGORY_OPTIONS \cup { <<>>, <<"-", "-">> }

SkuTypes == TYPE_OPTIONS \cup { <<>>, <<" ", "!">> }

SkuColors == COLOR_OPTIONS \cup { <<"#", "f">>, <<"!", "!">> }

SkuInputs == [title : SkuTitles, category : SkuCategories, color : SkuColors, type : SkuTypes]

SkuInit ==
    /\ skuArgs \in SkuInputs
    /\ now = 1
    /\ sku = None
    /\ IdleS3
    /\ IdleProduct
    /\ IdleCreate
    /\ IdleHealth
    /\ IdleRace

\* one call of generate_sku; "at" remembers the clock reading of the call and
\* "prior" the call before it
GenerateSku ==
    /\ sku' = Some([value |-> generate_sku(skuArgs.title, skuArgs.category, skuArgs.color,
                                           skuArgs.type, ClockReadings[now]),
                    at |-> now,
                    prior |-> IF sku = None THEN None
                              ELSE Some([value |-> sku[1].value, at |-> sku[1].at])])
    /\ UNCHANGED <<skuArgs, now, req, pc, valid, calls, resp, db, objects, form, outcome, s3ops,
                   replies, env, ui, session, db_client, procs>>

\* time passes
Tick ==
    /\ now < Len(ClockReadings)
    /\ now' = now + 1
    /\ UNCHANGED <<skuArgs, sku, req, pc, valid, calls, resp, db, objects, form, outcome, s3ops,
                   replies, env, ui, session, db_client, procs>>

SkuNext == GenerateSku \/ Tick

SkuSpec == SkuInit /\ [][SkuNext]_vars

---------------------------------------------------------------------------
(* Claims about generate_sku, checked under SkuSpec *)

\* the first k characters of x, non-alphanumeric ones dropped, the rest uppercased
RECURSIVE C9_Code(_, _)
C9_Code(x, k) ==
    IF k = 0 \/ x = <<>> THEN <<>>
    ELSE (IF IsAlnumChar(Head(x)) THEN <<UpperChar(Head(x))>> ELSE <<>>)
             \o C9_Code(Tail(x), k - 1)

\* the number a two-digit decimal field reads as
C9_FieldValue(d) ==
    10 * ((CHOOSE i \in 1..10 : DigitChars[i] = d[1]) - 1)
       + ((CHOOSE i \in 1..10 : DigitChars[i] = d[2]) - 1)

C10_Example ==
    /\ skuArgs = [title |-> STRENGTH_AND_HONOR, category |-> <<"M", "e", "n">>, color |-> <<"r", "e", "d">>,
                  type |-> <<"T", "-", "s", "h", "i", "r", "t">>]
    /\ sku # None
    /\ ClockReadings[sku[1].at].year = 2024 /\ ClockReadings[sku[1].at].month = 1
    /\ ClockReadings[sku[1].at].day = 2 /\ ClockReadings[sku[1].at].hour = 3
    /\ ClockReadings[sku[1].at].minute = 4

\* C10 as stated: generate_sku("Strength And Honor", "Men", "red", "T-shirt") at
\* 2024-01-02 03:04 yields "MET3REST-2401020304".
C10_ExampleYieldsMET3REST ==
    C10_Example => sku[1].value = <<"M", "E", "T", "3", "R", "E", "S", "T", "-", "2", "4", "0", "1", "0", "2", "0", "3", "0", "4">>

\* C10 as amended: generate_sku("Strength And Honor", "Men", "red", "T-shirt") at
\* 2024-01-02 03:04 yields "METRESTR-2401020304".
C10_ExampleYieldsMETRESTR ==
    C10_Example => sku[1].value = <<"M", "E", "T", "R", "E", "S", "T", "R", "-", "2", "4", "0", "1", "0", "2", "0", "3", "0", "4">>

C10_Witness ==
    /\ C10_Example
    /\ ClockReadings[sku[1].at].second = 59

\* two clock readings fall in the same minute
C19_SameMinute(t1, t2) ==
    /\ t1.year = t2.year /\ t1.month = t2.month /\ t1.day = t2.day
    /\ t1.hour = t2.hour /\ t1.minute = t2.minute

\* C19: two generate_sku calls with the same title, category, color and type whose
\* clock readings fall in the same minute return the same SKU.
C19_SameMinuteSameSku ==
    (/\ sku # None /\ sku[1].prior # None
     /\ C19_SameMinute(ClockReadings[sku[1].prior[1].at], ClockReadings[sku[1].at]))
        => sku[1].value = sku[1].prior[1].value

\* a call at 03:04:00 and a call at 03:04:59
C19_Witness ==
    /\ sku # None /\ sku[1].prior # None
    /\ ClockReadings[sku[1].prior[1].at].second = 0
    /\ ClockReadings[sku[1].at].second = 59
    /\ ClockReadings[sku[1].prior[1].at].minute = ClockReadings[sku[1].at].minute
    /\ sku[1].value = sku[1].prior[1].value
    /\ skuArgs.title = STRENGTH_AND_HONOR

---------------------------------------------------------------------------
(* utils/gcs_utils.py: GCSClient.create_bucket, and api/gcs_api.py: the    *)
(* route GET /bucket/create/{bucket_name}                                  *)

\* sub in s
str_contains(s, sub) ==
    \E i \in 1..(Len(s) - Len(sub) + 1) : SubSeq(s, i, i + Len(sub) - 1) = sub

GCS_LOCATION == "US"

GCS_ACCESS_PHRASE == <<"s", "t", "o", "r", "a", "g", "e", ".", "b", "u", "c", "k", "e", "t", "s", ".", "c", "r", "e", "a", "t", "e", " ", "a", "c", "c", "e", "s", "s">>

GCS_FAILED == <<"F", "a", "i", "l", "e", "d", " ", "t", "o", " ", "c", "r", "e", "a", "t", "e", " ", "b", "u", "c", "k", "e", "t">>

GCS_PERMISSION_DENIED == "Permission denied: You don't have access to create buckets. Please check your GCP credentials and permissions."

\* what bucket.create() raises: google.api_core Forbidden (the caller lacks
\* storage.buckets.create access), Conflict, ServiceUnavailable
GcsErrors == {"Forbidden", "Conflict", "ServiceUnavailable"}

GcsOutcomes == {"ok"} \cup GcsErrors

\* mutant: the bucket object is returned although bucket.create() raised
GCSClient_create_bucket_returns_unmade_bucket(bucket_name, o_create) ==
    [bucket |-> Some(bucket_name),
     calls |-> <<[op |-> "create", bucket |-> bucket_name, location |-> GCS_LOCATION]>>]

\* returns the bucket, or None when anything in the try block raised
GCSClient_create_bucket(bucket_name, o_create) ==
    LET create == [op |-> "create", bucket |-> bucket_name, location |-> GCS_LOCATION] IN
    IF o_create = "ok"
    THEN [bucket |-> Some(bucket_name), calls |-> <<create>>]
    ELSE [bucket |-> None, calls |-> <<create>>]

\* str(e) of the HTTPException raised inside the try block: Starlette gives
\* "{status_code}: {detail}", and before it defined __str__ the empty string
StrHTTPException(e) ==
    { <<>>,
      <<DigitChars[(e.status \div 100) + 1]>> \o TwoDigits(e.status % 100) \o <<":", " ">> \o e.detail }

\* the route; error_msg is str(e) of the exception its except clause caught
gcs_create_bucket(r, o_create, error_msg) ==
    LET created == GCSClient_create_bucket(r.bucket_name, o_create) IN
    IF created.bucket # None
    THEN NotValidated(created.calls,
                      OkResponse(200, [message |-> "Bucket {bucket_name} created successfully",
                                       bucket_name |-> r.bucket_name]))
    ELSE IF str_contains(error_msg, GCS_ACCESS_PHRASE)
    THEN NotValidated(created.calls, HTTPException(403, GCS_PERMISSION_DENIED))
    ELSE NotValidated(created.calls, HTTPException(500, error_msg))

---------------------------------------------------------------------------
(* Specification GcsSpec: one request to the GCS route *)

\* the bucket names given in the path: not empty, and starting and ending with a
\* letter or a digit, which client.bucket(name) takes as they are
GcsBucketNames ==
    { n \in BucketNames : n # <<>> /\ IsAlnumChar(n[1]) /\ IsAlnumChar(n[Len(n)]) }

GcsRequests == { [endpoint |-> "gcs_create_bucket", bucket_name |-> n] : n \in GcsBucketNames }

GcsInit ==
    /\ req \in GcsRequests
    /\ pc = "pending"
    /\ valid = None
    /\ calls = <<>>
    /\ resp = None
    /\ replies = <<>>
    /\ IdleSku
    /\ IdleProduct
    /\ IdleCreate
    /\ IdleHealth
    /\ IdleRace

GcsCreateBucket ==
    /\ pc = "pending" /\ req.endpoint = "gcs_create_bucket"
    /\ \E o \in GcsOutcomes :
       \E error_msg \in Drawn(o # "ok", StrHTTPException(HTTPException(400, GCS_FAILED))) :
          Respond(gcs_create_bucket(req, o, error_msg),
                  <<Reply(o, [name |-> req.bucket_name])>>)

GcsNext == GcsCreateBucket

GcsSpec == GcsInit /\ [][GcsNext]_vars

---------------------------------------------------------------------------
(* Claims about the GCS route, checked under GcsSpec *)

GcsDone == pc = "done" /\ req.endpoint = "gcs_create_bucket"

\* C16: the GCS route calls the bucket-name validator before the vendor create
\* call: a name that violates the naming rules (length outside 3..63, uppercase, or
\* a character other than letters, digits and '-') never reaches bucket.create().
C16_InvalidNameNeverCreated ==
    (GcsDone /\ ~C1_ClaimedRule(req.bucket_name))
        => /\ valid = Some(FALSE)
           /\ \A i \in 1..Len(calls) : calls[i].op # "create"

GcsCreateFailed == GcsDone /\ replies # <<>> /\ replies[1].error # None

\* C20: when the GCS bucket creation fails, the route responds 403 if the failure
\* is the missing storage.buckets.create access, and otherwise, GCSClient.create_bucket
\* having returned None, 400 with detail 'Failed to create bucket'; never 500.
C20_CreateFailureStatus ==
    GcsCreateFailed
        => /\ resp.kind = "HTTPException"
           /\ replies[1].error = Some("Forbidden") => resp.status = 403
           /\ replies[1].error # Some("Forbidden")
                 => (resp.status = 400 /\ resp.detail = GCS_FAILED)

---------------------------------------------------------------------------
(* streamlit/product_mgmt_v1.py: ProductManager.delete_product and         *)
(* delete_product_tab                                                      *)

\* mutant: folder_name.split("-")[0], the text before the first '-'
FirstSegment(s) ==
    IF \A i \in 1..Len(s) : s[i] # "-" THEN s
    ELSE SubSeq(s, 1, (CHOOSE i \in 1..Len(s) : s[i] = "-" /\ \A j \in 1..(i - 1) : s[j] # "-") - 1)

\* folder_name.split("-")[-1]: the text after the last '-', or all of it
RECURSIVE LastSegment(_)
LastSegment(s) ==
    IF \A i \in 1..Len(s) : s[i] # "-"
    THEN s
    ELSE LastSegment(Tail(s))

\* the rows "DELETE FROM products WHERE unique_id = :unique_id" matches
MatchingRows(rows, unique_id) == {row \in rows : row.unique_id = unique_id}

\* the keys list_objects_v2 gives for Prefix
KeysUnder(keys, prefix) == {k \in keys : str_startswith(k, prefix)}

MSG_NOT_FOUND == "Product with folder name {folder_name} not found in database"

MSG_DELETED == "Product folder {folder_name} deleted successfully"

MSG_S3_FAILED == "Product deleted from database, but S3 folder deletion failed: {e}"

MSG_DB_ERROR == "Database error: {e}"

MSG_ERROR == "Error: {e}"

\* what delete_product leaves behind: the tuple it returns, result.rowcount (None
\* when the DELETE did not complete), the table, the bucket and the storage calls
Deleted(success, message, rowcount, rows, keys, ops) ==
    [ret |-> [success |-> success, message |-> message], rowcount |-> rowcount,
     db |-> rows, objects |-> keys, s3ops |-> ops]

StorageCall(op, args, raised) == [op |-> op, args |-> args, raised |-> raised]

\* the "Delete folder from S3" block, run after the row was deleted
DeleteFolderStorageFailureIsSuccess(folder_name, rowcount, rows, keys, o_list, o_delete) ==
    LET prefix == folder_name \o SLASH
        delete_keys == KeysUnder(keys, prefix)
        list(raised) == StorageCall("list_objects_v2", [Prefix |-> prefix], raised)
        delete(raised) == StorageCall("delete_objects", [Objects |-> delete_keys], raised)
    IN  IF o_list # "ok"
        THEN Deleted(TRUE, MSG_DELETED, rowcount, rows, keys, <<list(TRUE)>>)
        ELSE IF delete_keys = {}
        THEN Deleted(TRUE, MSG_DELETED, rowcount, rows, keys, <<list(FALSE)>>)
        ELSE IF o_delete # "ok"
        THEN Deleted(TRUE, MSG_DELETED, rowcount, rows, keys, <<list(FALSE), delete(TRUE)>>)
        ELSE Deleted(TRUE, MSG_DELETED, rowcount, rows, keys \ delete_keys,
                     <<list(FALSE), delete(FALSE)>>)

DeleteFolder(folder_name, rowcount, rows, keys, o_list, o_delete) ==
    LET prefix == folder_name \o SLASH
        delete_keys == KeysUnder(keys, prefix)
        list(raised) == StorageCall("list_objects_v2", [Prefix |-> prefix], raised)
        delete(raised) == StorageCall("delete_objects", [Objects |-> delete_keys], raised)
    IN  IF o_list # "ok"
        THEN Deleted(TRUE, MSG_S3_FAILED, rowcount, rows, keys, <<list(TRUE)>>)
        ELSE IF delete_keys = {}
        THEN Deleted(TRUE, MSG_DELETED, rowcount, rows, keys, <<list(FALSE)>>)
        ELSE IF o_delete # "ok"
        THEN Deleted(TRUE, MSG_S3_FAILED, rowcount, rows, keys, <<list(FALSE), delete(TRUE)>>)
        ELSE Deleted(TRUE, MSG_DELETED, rowcount, rows, keys \ delete_keys,
                     <<list(FALSE), delete(FALSE)>>)

\* rows and keys are the table and the bucket before the call; o_db, o_list and
\* o_delete are what the database and the storage service answer
delete_product_ignores_rowcount(folder_name, rows, keys, o_db, o_list, o_delete) ==
    LET unique_id == LastSegment(folder_name)
        matched == MatchingRows(rows, unique_id)
    IN  IF o_db = "SQLAlchemyError"
        THEN Deleted(FALSE, MSG_DB_ERROR, None, rows, keys, <<>>)
        ELSE IF o_db # "ok"
        THEN Deleted(FALSE, MSG_ERROR, None, rows, keys, <<>>)
        ELSE DeleteFolder(folder_name, Some(Cardinality(matched)), rows \ matched, keys,
                          o_list, o_delete)

delete_product(folder_name, rows, keys, o_db, o_list, o_delete) ==
    LET unique_id == LastSegment(folder_name)
        matched == MatchingRows(rows, unique_id)
    IN  IF o_db = "SQLAlchemyError"
        THEN Deleted(FALSE, MSG_DB_ERROR, None, rows, keys, <<>>)
        ELSE IF o_db # "ok"
        THEN Deleted(FALSE, MSG_ERROR, None, rows, keys, <<>>)
        ELSE IF Cardinality(matched) = 0
        THEN Deleted(FALSE, MSG_NOT_FOUND, Some(0), rows, keys, <<>>)
        ELSE DeleteFolder(folder_name, Some(Cardinality(matched)), rows \ matched, keys,
                          o_list, o_delete)

Banner(kind, message) == [kind |-> kind, message |-> message]

\* the body of delete_product_tab on a press of "Delete Product": what it displays,
\* what delete_product returned (None when it was not called) and left behind
Shown(banner, d) == [banner |-> banner, deleted |-> d]

delete_product_tab(folder_name, confirm, rows, keys, o_init, o_db, o_list, o_delete) ==
    LET d == delete_product(folder_name, rows, keys, o_db, o_list, o_delete) IN
    IF o_init # "ok"
    THEN Shown(Banner("error", "Error initializing product manager: {e}"), None)
    ELSE IF folder_name = <<>>
    THEN Shown(Banner("error", "Please provide a product folder name."), None)
    ELSE IF ~confirm
    THEN Shown(Banner("error", "Please confirm the deletion by checking the confirmation box."),
               None)
    ELSE IF d.ret.success
    THEN Shown(Banner("success", d.ret.message), Some(d))
    ELSE Shown(Banner("error", d.ret.message), Some(d))

---------------------------------------------------------------------------
(* Specification ProductSpec: presses of "Delete Product" against a        *)
(* products table and a product bucket                                     *)

ID_7A == <<"7", "a", "5", "6", "7", "1", "c", "b">>

ID_00 == <<"0", "0", "0", "0", "0", "0", "0", "0">>

FOLDER_STRENGTH == <<"s", "t", "r", "e", "n", "g", "t", "h", "-", "a", "n", "d", "-", "h", "o", "n", "o", "r", "-", "7", "a", "5", "6", "7", "1", "c", "b">>

FOLDER_OTHER == <<"o", "t", "h", "e", "r", "-", "t", "e", "e", "-", "7", "a", "5", "6", "7", "1", "c", "b">>

FOLDER_CAP == <<"c", "a", "p", "-", "0", "0", "0", "0", "0", "0", "0", "0">>

ProductRows == { [unique_id |-> ID_7A, folder |-> FOLDER_STRENGTH],
                 [unique_id |-> ID_00, folder |-> FOLDER_CAP] }

ProductKeys == { FOLDER_STRENGTH \o <<"/", "t", ".", "p", "n", "g">>, FOLDER_STRENGTH \o <<"/", "m", ".", "p", "n", "g">>,
                 FOLDER_OTHER \o <<"/", "t", ".", "p", "n", "g">>, FOLDER_CAP \o <<"/", "t", ".", "p", "n", "g">> }

\* what the user types into "Product Folder Name"
FolderInputs == { <<>>, FOLDER_STRENGTH, FOLDER_OTHER, FOLDER_CAP, ID_7A,
                  <<"s", "t", "r", "e", "n", "g", "t", "h", "-", "a", "n", "d", "-", "h", "o", "n", "o", "r", "-">>, <<"g", "h", "o", "s", "t", "-", "1", "2", "3", "4", "5", "6", "7", "8">> }

DbOutcomes == {"ok", "SQLAlchemyError", "Exception"}

StorageOutcomes == {"ok", "ClientError"}

ProductInit ==
    /\ db \in SUBSET ProductRows
    /\ objects \in SUBSET ProductKeys
    /\ form = None
    /\ outcome = None
    /\ s3ops = <<>>
    /\ IdleS3
    /\ IdleSku
    /\ IdleCreate
    /\ IdleHealth
    /\ IdleRace

DeleteProductTab ==
    \E folder_name \in FolderInputs, confirm \in BOOLEAN, o_init \in {"ok", "OperationalError"} :
    \E o_db \in Drawn(o_init = "ok" /\ folder_name # <<>> /\ confirm, DbOutcomes) :
    \E o_list \in Drawn(o_db = "ok", StorageOutcomes) :
    \E o_delete \in Drawn(o_list = "ok", StorageOutcomes) :
       LET shown == delete_product_tab(folder_name, confirm, db, objects,
                                       o_init, o_db, o_list, o_delete)
       IN  /\ form' = Some([folder_name |-> folder_name, confirm |-> confirm])
           /\ outcome' = Some([banner |-> shown.banner,
                               ret |-> IF shown.deleted = None THEN None
                                       ELSE Some(shown.deleted[1].ret),
                               rowcount |-> IF shown.deleted = None THEN None
                                            ELSE shown.deleted[1].rowcount])
           /\ db' = IF shown.deleted = None THEN db ELSE shown.deleted[1].db
           /\ objects' = IF shown.deleted = None THEN objects ELSE shown.deleted[1].objects
           /\ s3ops' = IF shown.deleted = None THEN <<>> ELSE shown.deleted[1].s3ops
           /\ UNCHANGED <<req, pc, valid, calls, resp, skuArgs, now, sku, replies, env, ui, session,
                          db_client, procs>>

ProductNext == DeleteProductTab

ProductSpec == ProductInit /\ [][ProductNext]_vars

---------------------------------------------------------------------------
(* Claims about delete_product, checked under ProductSpec *)

\* delete_product was called by the last press and returned
DeleteReturned == outcome # None /\ outcome[1].ret # None

FailureMessages == {MSG_NOT_FOUND, MSG_DB_ERROR, MSG_ERROR}

\* C4: a delete_product(folder_name) whose database delete matches no row returns
\* the not-found failure and issues no storage list or delete call; the stored
\* objects (and the table) are as before the call.
C4_NoRowNoStorageDeletion ==
    [][ /\ (DeleteReturned' /\ outcome'[1].rowcount = Some(0))
            => /\ outcome'[1].ret[1] = [success |-> FALSE, message |-> MSG_NOT_FOUND]
               /\ outcome'[1].banner = [kind |-> "error", message |-> MSG_NOT_FOUND]
               /\ s3ops' = <<>>
               /\ objects' = objects
               /\ db' = db
        /\ (/\ DeleteReturned'
            /\ outcome'[1].ret[1].message \notin {MSG_DB_ERROR, MSG_ERROR}
            /\ \A row \in db : row.unique_id # LastSegment(form'[1].folder_name))
            => outcome'[1].rowcount = Some(0)
      ]_vars

\* no row has the id 7a5671cb, objects lie under the folder named, and they stay
C4_Witness ==
    /\ DeleteReturned
    /\ form[1].folder_name = FOLDER_STRENGTH
    /\ outcome[1].rowcount = Some(0)
    /\ outcome[1].ret[1].message = MSG_NOT_FOUND
    /\ FOLDER_STRENGTH \o <<"/", "t", ".", "p", "n", "g">> \in objects

\* the last storage call of the delete raised
StorageFailed == s3ops # <<>> /\ s3ops[Len(s3ops)].raised

C24_DeletesOnlyOwnFolder ==
    [][ \A row \in db \ db' :
          outcome'[1].ret = Some([success |-> TRUE, message |-> MSG_DELETED])
              => /\ form'[1].folder_name = row.folder
                 /\ KeysUnder(objects', row.folder \o SLASH) = {} ]_vars

---------------------------------------------------------------------------
(* streamlit/product_mgmt_v1.py: the creation of a product                 *)

PRODUCT_BUCKET == <<"p", "r", "o", "d", "u", "c", "t", "s", "-", "r", "f", "l", "k", "t", "-", "a", "l", "p", "h", "a">>

SUFFIX_THUMBNAIL == <<"_", "t", "h", "u", "m", "b", "n", "a", "i", "l", ".", "p", "n", "g">>

SUFFIX_MAIN == <<"_", "m", "a", "i", "n", ".", "p", "n", "g">>

SUFFIX_ADDITIONAL == <<"_", "a", "d", "d", "i", "t", "i", "o", "n", "a", "l", "_", "i", "m", "a", "g", "e", "_">>

SUFFIX_PNG == <<".", "p", "n", "g">>

\* title.split(): the words between runs of whitespace
RECURSIVE str_split(_)
str_split(s) ==
    IF s = <<>> THEN <<>>
    ELSE IF Head(s) = " " THEN str_split(Tail(s))
    ELSE LET n == IF \E i \in 1..Len(s) : s[i] = " "
                  THEN (CHOOSE i \in 1..Len(s) : s[i] = " " /\ \A j \in 1..(i - 1) : s[j] # " ") - 1
                  ELSE Len(s)
         IN  <<SubSeq(s, 1, n)>> \o str_split(SubSeq(s, n + 1, Len(s)))

\* sep.join(words)
RECURSIVE str_join(_, _)
str_join(sep, words) ==
    IF words = <<>> THEN <<>>
    ELSE IF Len(words) = 1 THEN words[1]
    ELSE words[1] \o sep \o str_join(sep, Tail(words))

sanitize_folder_name(title) ==
    SelectSeq(str_join(<<"-">>, str_split(str_lower(title))), LAMBDA c : IsAlnumChar(c) \/ c = "-")

\* os.getenv("AWS_REGION", "us-east-1")
GetenvAwsRegion(aws_region) == IF aws_region = None THEN US_EAST_1 ELSE aws_region[1]

\* image_file re-encoded by PIL: mode RGBA, saved as PNG
ProcessedImage(image_file) == [source |-> image_file.name, format |-> "PNG", mode |-> "RGBA"]

\* the upload_fileobj call issued, whether it raised, and the URL returned when it
\* did not raise
process_and_upload_image(image_file, bucket, key, o_upload, aws_region) ==
    [op |-> StorageCall("upload_fileobj",
                        [Fileobj |-> ProcessedImage(image_file), Bucket |-> bucket, Key |-> key,
                         ExtraArgs |-> [ContentType |-> "image/png"]],
                        o_upload # "ok"),
     url |-> PublicUrl(bucket, GetenvAwsRegion(aws_region), key)]

\* the values st.session_state.product holds, with their Python types: None, "",
\* [] and 0 differ from one another
PyNone == [py |-> "NoneType", v |-> <<>>]

PyStr(s) == [py |-> "str", v |-> s]

PyList(items) == [py |-> "list", v |-> items]

PyFile(file) == [py |-> "BytesIO", v |-> <<file>>]

PyBool(b) == [py |-> "bool", v |-> <<b>>]

PyFloat(n) == [py |-> "float", v |-> <<n>>]

PyInt(n) == [py |-> "int", v |-> <<n>>]

\* bool(x): None, "", [], False and 0 are false, a BytesIO is true
Truthy(x) ==
    CASE x.py = "NoneType" -> FALSE
      [] x.py \in {"str", "list"} -> x.v # <<>>
      [] x.py = "BytesIO" -> TRUE
      [] x.py = "bool" -> x.v[1]
      [] OTHER -> x.v[1] # 0

\* what a for loop over x visits: the items of a list, the characters of a str
Items(x) == x.v

\* what upload_images_to_s3 returns, and the storage calls it issued
Uploaded(thumbnail_url, main_image_url, image_urls, unique_id, ops) ==
    [ret |-> [thumbnail_url |-> thumbnail_url, main_image_url |-> main_image_url,
              image_urls |-> image_urls, unique_id |-> unique_id],
     ops |-> ops]

\* o_thumbnail, o_main and o_additional[i] are what the storage service answers to
\* the upload of each image
upload_images_to_s3(thumbnail, main_image, additional_images, product_title, unique_id, o_thumbnail, o_main, o_additional, aws_region) ==
    LET sanitized == sanitize_folder_name(product_title)
        folder_name == sanitized \o <<"-">> \o unique_id
        Key(suffix) == folder_name \o SLASH \o sanitized \o <<"_">> \o unique_id \o suffix
        thumb == process_and_upload_image(thumbnail.v[1], PRODUCT_BUCKET, Key(SUFFIX_THUMBNAIL),
                                          o_thumbnail, aws_region)
        main == process_and_upload_image(main_image.v[1], PRODUCT_BUCKET, Key(SUFFIX_MAIN),
                                         o_main, aws_region)
        adds == [i \in 1..Len(Items(additional_images)) |->
                   process_and_upload_image(
                       Items(additional_images)[i], PRODUCT_BUCKET,
                       Key(SUFFIX_ADDITIONAL \o <<DigitChars[i + 1]>> \o SUFFIX_PNG),
                       o_additional[i], aws_region)]
        uploaded == SelectSeq(adds, LAMBDA a : ~a.op.raised)
        thumbnail_ops == IF Truthy(thumbnail) THEN <<thumb.op>> ELSE <<>>
        main_ops == IF Truthy(main_image) THEN <<main.op>> ELSE <<>>
    IN  IF Truthy(thumbnail) /\ thumb.op.raised
        THEN Uploaded(None, None, <<>>, unique_id, thumbnail_ops)
        ELSE IF Truthy(main_image) /\ main.op.raised
        THEN Uploaded(IF Truthy(thumbnail) THEN Some(thumb.url) ELSE None, None, <<>>,
                      unique_id, thumbnail_ops \o main_ops)
        ELSE Uploaded(IF Truthy(thumbnail) THEN Some(thumb.url) ELSE None,
                      IF Truthy(main_image) THEN Some(main.url) ELSE None,
                      [i \in 1..Len(uploaded) |-> uploaded[i].url],
                      unique_id,
                      thumbnail_ops \o main_ops \o [i \in 1..Len(adds) |-> adds[i].op])

\* the row inserted (None when the INSERT failed), the value returned (None when an
\* exception other than SQLAlchemyError left the method) and the SKU computed
Inserted(ret, row, sku_value) == [ret |-> ret, row |-> row, sku |-> sku_value]

\* t is the clock reading of the generate_sku call inside insert_product
insert_product(product_data, thumbnail_url, main_image_url, additional_image_urls, unique_id, t, o_db) ==
    LET sku_value == generate_sku(product_data.title, product_data.category,
                                  product_data.color, product_data.type, ClockReadings[t])
        data == [title |-> product_data.title, sku |-> sku_value,
                 thumbnail_image |-> thumbnail_url, main_image |-> main_image_url,
                 additional_images |-> additional_image_urls, unique_id |-> unique_id]
    IN  IF o_db = "ok" THEN Inserted(Some(TRUE), Some(data), sku_value)
        ELSE IF o_db = "SQLAlchemyError" THEN Inserted(Some(FALSE), None, sku_value)
        ELSE Inserted(None, None, sku_value)

\* the loop of "Reset Form", and of main in add_new_productv2.py after a product was
\* created: every key of st.session_state.product gets the value its branch names,
\* and "" when no branch names the key
ResetProduct(product) ==
    [key \in DOMAIN product |->
        CASE key = "in_stock" -> PyBool(TRUE)
          [] key = "price" -> PyFloat(0)
          [] key = "quantity_in_stock" -> PyInt(0)
          [] key = "color" -> PyStr(<<"r", "e", "d">>)
          [] key = "type" -> PyStr(<<"T", "-", "s", "h", "i", "r", "t">>)
          [] key = "category" -> PyStr(<<"U", "n", "i", "s", "e", "x">>)
          [] key = "status" -> PyStr(<<"a", "c", "t", "i", "v", "e">>)
          [] key = "price_currency" -> PyStr(<<"U", "S", "D">>)
          [] key = "images" -> PyList(<<>>)
          [] OTHER -> PyStr(<<>>)]

\* handle_image_upload: a file held by an uploader is copied into
\* st.session_state.product; an empty uploader leaves the entry as it is
handle_image_upload(state, widgets) ==
    [state EXCEPT
        !.product.thumbnail =
            IF widgets.thumbnail_uploader # None
            THEN PyFile(widgets.thumbnail_uploader[1]) ELSE @,
        !.product.main_image =
            IF widgets.main_image_uploader # None
            THEN PyFile(widgets.main_image_uploader[1]) ELSE @,
        !.product.additional_images =
            IF widgets.additional_uploader # <<>> THEN PyList(widgets.additional_uploader) ELSE @]

\* st.session_state[key] for the keys of the form
ProductData(widgets) ==
    [title |-> widgets.title, category |-> widgets.category, color |-> widgets.color,
     type |-> widgets.type]

\* what handle_product_creation returns and leaves behind: the session state, the
\* row inserted, the storage calls issued and what upload_images_to_s3 returned
Created(ret, state, row, ops, uploaded) ==
    [ret |-> ret, session |-> state, row |-> row, ops |-> ops, uploaded |-> uploaded]

Failed(state, message, ops, uploaded) ==
    Created(FALSE, [state EXCEPT !.product_creation_result = Some(message)], None, ops, uploaded)

\* mutant: the result of the thumbnail upload is not looked at
ThumbnailUploadIgnored(thumbnail_url) == FALSE

\* "if thumbnail_url is None" after upload_images_to_s3 returned
ThumbnailUploadFailed(thumbnail_url) == thumbnail_url = None

\* t_sku and t_insert are the clock readings of the two generate_sku calls
handle_product_creation(state, widgets, unique_id, t_sku, t_insert, o_thumbnail, o_main, o_additional, o_db, aws_region) ==
    LET product_data == ProductData(widgets)
        up == upload_images_to_s3(state.product.thumbnail, state.product.main_image,
                                  state.product.additional_images, product_data.title,
                                  unique_id, o_thumbnail, o_main, o_additional, aws_region)
        sku_value == generate_sku(product_data.title, product_data.category,
                                  product_data.color, product_data.type, ClockReadings[t_sku])
        ins == insert_product(product_data, up.ret.thumbnail_url, up.ret.main_image_url,
                              up.ret.image_urls, up.ret.unique_id, t_insert, o_db)
    IN  IF product_data.title = <<>>
        THEN Failed(state, "Please enter a product title", <<>>, None)
        ELSE IF state.product.thumbnail = PyNone
        THEN Failed(state, "Please upload a thumbnail image", <<>>, None)
        ELSE IF ThumbnailUploadFailed(up.ret.thumbnail_url)
        THEN Failed(state, "Failed to upload thumbnail image", up.ops, Some(up.ret))
        ELSE IF ins.ret = None
        THEN Failed(state, "Error creating product: {e}", up.ops, Some(up.ret))
        ELSE IF ins.ret = Some(TRUE)
        THEN Created(TRUE,
                     [state EXCEPT
                         !.product_creation_result = Some("Product created successfully!"),
                         !.last_created_sku = Some(sku_value),
                         !.last_created_preview =
                             Some([title |-> product_data.title, sku |-> sku_value,
                                   thumbnail_image |-> up.ret.thumbnail_url,
                                   main_image |-> up.ret.main_image_url,
                                   additional_images |-> up.ret.image_urls,
                                   unique_id |-> up.ret.unique_id])],
                     ins.row, up.ops, Some(up.ret))
        ELSE Failed(state, "Failed to create product in database", up.ops, Some(up.ret))

---------------------------------------------------------------------------
(* streamlit/add_new_productv2.py: the creation of a product               *)

S3_SCHEME == <<"s", "3", ":", "/", "/">>

IMAGE_PREFIX == <<"i", "m", "a", "g", "e", "_">>

SUFFIX_JPG == <<".", "j", "p", "g">>

\* f"s3://{self.BUCKET_NAME}/{key}"
S3Url(bucket, key) == S3_SCHEME \o bucket \o SLASH \o key

\* the file as the user uploaded it
RawImage(image) == [source |-> image.name, format |-> image.format, mode |-> image.mode]

\* o_images[i] is what the storage service answers to the upload of images[i]; a
\* failed upload is reported and the loop goes on
upload_images_to_s3_v2(images, product_title, unique_id, o_images) ==
    LET folder_name == sanitize_folder_name(product_title) \o <<"-">> \o unique_id
        Key(idx) == folder_name \o SLASH \o IMAGE_PREFIX \o <<DigitChars[idx + 1]>> \o SUFFIX_JPG
        ups == [i \in 1..Len(images) |->
                  [idx |-> i - 1,
                   op |-> StorageCall("upload_fileobj",
                                      [Fileobj |-> RawImage(images[i]), Bucket |-> PRODUCT_BUCKET,
                                       Key |-> Key(i - 1)],
                                      o_images[i] # "ok"),
                   url |-> S3Url(PRODUCT_BUCKET, Key(i - 1))]]
        others == SelectSeq(ups, LAMBDA u : ~u.op.raised /\ u.idx # 0)
    IN  [ret |-> [thumbnail_url |-> IF images # <<>> /\ ~ups[1].op.raised
                                    THEN Some(ups[1].url) ELSE None,
                  image_urls |-> [i \in 1..Len(others) |-> others[i].url]],
         ops |-> [i \in 1..Len(ups) |-> ups[i].op]]

insert_product_v2(product_data, thumbnail_url, additional_image_urls, t, o_db) ==
    LET sku_value == generate_sku(product_data.title, product_data.category,
                                  product_data.color, product_data.type, ClockReadings[t])
        data == [title |-> product_data.title, sku |-> sku_value,
                 thumbnail_image |-> thumbnail_url,
                 additional_images |-> additional_image_urls]
    IN  IF o_db = "ok" THEN Inserted(Some(TRUE), Some(data), sku_value)
        ELSE IF o_db = "SQLAlchemyError" THEN Inserted(Some(FALSE), None, sku_value)
        ELSE Inserted(None, None, sku_value)

\* handle_image_upload: the files the uploader holds replace the images of the
\* session; an empty uploader leaves them as they are
handle_image_upload_v2(state, widgets) ==
    IF widgets.image_uploader # <<>>
    THEN [state EXCEPT !.image_previews = <<>>,
                       !.product.images = PyList(widgets.image_uploader)]
    ELSE state

\* what a press of "Create Product" in main displays and leaves behind
CreatedV2(banner, state, row, ops, uploaded, shown_sku) ==
    [banner |-> banner, session |-> state, row |-> row, ops |-> ops, uploaded |-> uploaded,
     sku |-> shown_sku]

\* the "Create Product" branch of main; t_insert and t_sku are the clock readings
\* of the generate_sku call of insert_product and of the one for display
main_create_product_v2(state, widgets, unique_id, t_insert, t_sku, o_images, o_db) ==
    LET product_data == ProductData(widgets)
        up == upload_images_to_s3_v2(Items(state.product.images), product_data.title, unique_id,
                                     o_images)
        ins == insert_product_v2(product_data, up.ret.thumbnail_url, up.ret.image_urls,
                                 t_insert, o_db)
        sku_value == generate_sku(product_data.title, product_data.category,
                                  product_data.color, product_data.type, ClockReadings[t_sku])
    IN  IF product_data.title = <<>>
        THEN CreatedV2(Banner("error", "Please enter a product title"), state, None, <<>>,
                       None, None)
        ELSE IF ~Truthy(state.product.images)
        THEN CreatedV2(Banner("warning", "Please upload at least one product image"), state,
                       None, <<>>, None, None)
        ELSE IF ins.ret = None
        THEN CreatedV2(Banner("error", "Error creating product: {e}"), state, None, up.ops,
                       Some(up.ret), None)
        ELSE IF ins.ret = Some(TRUE)
        THEN CreatedV2(Banner("success", "Product created successfully!"),
                       [state EXCEPT !.product = ResetProduct(@)],
                       ins.row, up.ops, Some(up.ret), Some(sku_value))
        ELSE CreatedV2(Banner("error", "Failed to create product in database"), state, None,
                       up.ops, Some(up.ret), None)

---------------------------------------------------------------------------
(* Specification CreateSpec: a user of the product page of                 *)
(* product_mgmt_v1.py or of add_new_productv2.py enters a title, chooses   *)
(* image files and presses "Create Product". Each action is one run of the *)
(* Streamlit script; the widgets keep their values from run to run.        *)

V1 == "product_mgmt_v1"

V2 == "add_new_productv2"

\* the files the user has at hand
IMG_T == [name |-> "t.jpg", format |-> "JPEG", mode |-> "RGB"]

IMG_M == [name |-> "m.png", format |-> "PNG", mode |-> "RGBA"]

IMG_A == [name |-> "a.jpeg", format |-> "JPEG", mode |-> "RGB"]

IMG_B == [name |-> "b.png", format |-> "PNG", mode |-> "P"]

CreateTitles == { <<>>, <<" ", "T", "e", "e", " ", " ", "N", "o", "!", "1">> }

\* uuid.uuid4().hex[:8] of the first, the second, ... call
Uuids == <<ID_7A, ID_00>>

\* the program run, the AWS_REGION of its environment and the location of the
\* product bucket (None is us-east-1)
Deployments ==
    { [program |-> V1, AWS_REGION |-> None, location |-> None],
      [program |-> V1, AWS_REGION |-> None, location |-> Some(EU_WEST_1)],
      [program |-> V1, AWS_REGION |-> Some(EU_WEST_1), location |-> Some(EU_WEST_1)],
      [program |-> V2, AWS_REGION |-> None, location |-> None] }

\* what the user may hold in the three uploaders of product_mgmt_v1.py
UploaderChoices ==
    { [thumbnail |-> None, main_image |-> None, additional |-> <<>>],
      [thumbnail |-> Some(IMG_T), main_image |-> None, additional |-> <<>>],
      [thumbnail |-> Some(IMG_T), main_image |-> Some(IMG_M), additional |-> <<IMG_A, IMG_B>>] }

\* the widgets before the user touched them
InitialWidgets(program) ==
    IF program = V1
    THEN [title |-> <<>>, category |-> <<"U", "n", "i", "s", "e", "x">>, color |-> <<"r", "e", "d">>,
          type |-> <<"T", "-", "s", "h", "i", "r", "t">>,
          thumbnail_uploader |-> None, main_image_uploader |-> None,
          additional_uploader |-> <<>>]
    ELSE [title |-> <<>>, category |-> <<"U", "n", "i", "s", "e", "x">>, color |-> <<"r", "e", "d">>,
          type |-> <<"T", "-", "s", "h", "i", "r", "t">>,
          image_uploader |-> <<>>]

\* the keys and values both pages give st.session_state.product
ProductDefaults ==
    [title |-> PyStr(<<>>), description |-> PyStr(<<>>), description_long |-> PyStr(<<>>),
     category |-> PyStr(<<"U", "n", "i", "s", "e", "x">>), color |-> PyStr(<<"r", "e", "d">>),
     in_stock |-> PyBool(TRUE), price |-> PyFloat(0), price_currency |-> PyStr(<<"U", "S", "D">>),
     material |-> PyStr(<<>>), type |-> PyStr(<<"T", "-", "s", "h", "i", "r", "t">>),
     quantity_in_stock |-> PyInt(0), status |-> PyStr(<<"a", "c", "t", "i", "v", "e">>)]

init_session_state(program) ==
    IF program = V1
    THEN [product |-> ProductDefaults @@ [thumbnail |-> PyNone, main_image |-> PyNone,
                                          additional_images |-> PyList(<<>>)],
          image_previews |-> <<>>, product_creation_result |-> None,
          last_created_sku |-> None, last_created_preview |-> None]
    ELSE [product |-> ProductDefaults @@ [images |-> PyList(<<>>)], image_previews |-> <<>>]

CreateInit ==
    /\ env \in Deployments
    /\ ui = InitialWidgets(env.program)
    /\ session = init_session_state(env.program)
    /\ db = {}
    /\ objects = {}
    /\ form = None
    /\ outcome = None
    /\ s3ops = <<>>
    /\ IdleS3
    /\ IdleSku
    /\ IdleHealth
    /\ IdleRace

\* a run of the script up to the buttons
RunToButtons(state, widgets) ==
    IF env.program = V1
    THEN handle_image_upload(state, widgets)
    ELSE handle_image_upload_v2(state, widgets)

\* the user types a title
EnterTitle ==
    \E title \in CreateTitles :
       /\ ui' = [ui EXCEPT !.title = title]
       /\ session' = RunToButtons(session, ui')
       /\ UNCHANGED <<req, pc, valid, calls, resp, skuArgs, now, sku, db, objects, form,
                      outcome, s3ops, replies, env, db_client, procs>>

\* the user puts files into, or takes them out of, the uploaders
ChooseImages ==
    /\ \/ /\ env.program = V1
          /\ \E files \in UploaderChoices :
                ui' = [ui EXCEPT !.thumbnail_uploader = files.thumbnail,
                                 !.main_image_uploader = files.main_image,
                                 !.additional_uploader = files.additional]
       \/ /\ env.program = V2
          /\ \E images \in {<<>>, <<IMG_T>>, <<IMG_T, IMG_M>>} :
                ui' = [ui EXCEPT !.image_uploader = images]
    /\ session' = RunToButtons(session, ui')
    /\ UNCHANGED <<req, pc, valid, calls, resp, skuArgs, now, sku, db, objects, form,
                   outcome, s3ops, replies, env, db_client, procs>>

\* the "Reset Form" branch of main, up to its st.rerun()
reset_form(program, state) ==
    IF program = V1
    THEN [state EXCEPT !.product = ResetProduct(@), !.product_creation_result = None,
                       !.last_created_sku = None, !.last_created_preview = None,
                       !.image_previews = <<>>]
    ELSE [state EXCEPT !.product = ResetProduct(@), !.image_previews = <<>>]

\* a press of "Reset Form": the script runs up to the buttons, resets, and runs once
\* more from the top (st.rerun); the widgets keep their values
ResetForm ==
    /\ \E state \in {RunToButtons(session, ui)} :
          session' = RunToButtons(reset_form(env.program, state), ui)
    /\ UNCHANGED <<req, pc, valid, calls, resp, skuArgs, now, sku, db, objects, form,
                   outcome, s3ops, replies, env, ui, db_client, procs>>

\* the presses of "Create Product" so far
Presses == IF outcome = None THEN 0 ELSE outcome[1].press

\* the clock reading of a later call: the same, or the next one
Later(t) == {t} \cup {u \in {t + 1} : u <= Len(ClockReadings)}

\* the keys of the objects the calls ops stored
StoredKeys(ops) == { ops[i].args.Key : i \in {j \in 1..Len(ops) : ~ops[j].raised} }

\* a press of "Create Product" on the page of product_mgmt_v1.py: the script runs
\* handle_image_upload, then handle_product_creation, and once more from the top
\* (st.rerun) when that returned True
CreateProductV1 ==
    /\ env.program = V1
    /\ Presses < Len(Uuids)
    /\ LET state == RunToButtons(session, ui)
           uploads == /\ ui.title # <<>> /\ state.product.thumbnail # PyNone
                      /\ Truthy(state.product.thumbnail)
           unique_id == Uuids[Presses + 1]
       IN  \E o_thumbnail \in Drawn(uploads, StorageOutcomes) :
           \E o_main \in Drawn(uploads /\ o_thumbnail = "ok" /\ Truthy(state.product.main_image),
                               StorageOutcomes) :
           \E o_additional \in Drawn(uploads /\ o_thumbnail = "ok" /\ o_main = "ok",
                                     [1..Len(Items(state.product.additional_images))
                                        -> StorageOutcomes]) :
           \E o_db \in Drawn(uploads /\ o_thumbnail = "ok", DbOutcomes) :
           \E t_insert \in (IF uploads /\ o_thumbnail = "ok" THEN Later(now) ELSE {now}) :
              \E c \in {handle_product_creation(state, ui, unique_id, now, t_insert,
                                               o_thumbnail, o_main, o_additional, o_db,
                                               env.AWS_REGION)} :
                  /\ session' = IF c.ret THEN RunToButtons(c.session, ui) ELSE c.session
                  /\ db' = IF c.row = None THEN db ELSE db \cup {c.row[1]}
                  /\ objects' = objects \cup StoredKeys(c.ops)
                  /\ s3ops' = c.ops
                  /\ outcome' = Some([press |-> Presses + 1, ret |-> c.ret,
                                      uploaded |-> c.uploaded, held |-> state.product,
                                      row |-> c.row, shown_sku |-> c.session.last_created_sku])
                  /\ now' = t_insert
    /\ UNCHANGED <<req, pc, valid, calls, resp, skuArgs, sku, form, replies, env, ui, db_client, procs>>

\* a press of "Create Product" on the page of add_new_productv2.py
CreateProductV2 ==
    /\ env.program = V2
    /\ Presses < Len(Uuids)
    /\ LET state == RunToButtons(session, ui)
           uploads == ui.title # <<>> /\ Truthy(state.product.images)
           unique_id == Uuids[Presses + 1]
       IN  \E o_images \in Drawn(uploads, [1..Len(Items(state.product.images))
                                             -> StorageOutcomes]) :
           \E o_db \in Drawn(uploads, DbOutcomes) :
           \E t_sku \in (IF uploads /\ o_db = "ok" THEN Later(now) ELSE {now}) :
              \E c \in {main_create_product_v2(state, ui, unique_id, now, t_sku, o_images, o_db)} :
                  /\ session' = c.session
                  /\ db' = IF c.row = None THEN db ELSE db \cup {c.row[1]}
                  /\ objects' = objects \cup StoredKeys(c.ops)
                  /\ s3ops' = c.ops
                  /\ outcome' = Some([press |-> Presses + 1, ret |-> c.banner.kind = "success",
                                      uploaded |-> c.uploaded, held |-> state.product,
                                      row |-> c.row, shown_sku |-> c.sku])
                  /\ now' = t_sku
    /\ UNCHANGED <<req, pc, valid, calls, resp, skuArgs, sku, form, replies, env, ui, db_client, procs>>

CreateNext ==
    \/ EnterTitle
    \/ ChooseImages
    \/ ResetForm
    \/ CreateProductV1
    \/ CreateProductV2

CreateSpec == CreateInit /\ [][CreateNext]_vars

---------------------------------------------------------------------------
(* Claims about the creation of a product, checked under CreateSpec *)

\* "Create Product" was pressed and upload_images_to_s3 was called
UploadReturned == outcome # None /\ outcome[1].uploaded # None

\* the URLs upload_images_to_s3 returned
ReturnedUrls(u) ==
    (IF u.thumbnail_url # None THEN {u.thumbnail_url[1]} ELSE {})
        \cup (IF "main_image_url" \in DOMAIN u /\ u.main_image_url # None
              THEN {u.main_image_url[1]} ELSE {})
        \cup Range(u.image_urls)

\* the region of the product bucket as get_bucket_location gives it, None read as
\* "us-east-1"
C11_BucketRegion == IF env.location = None THEN US_EAST_1 ELSE env.location[1]

\* C11: every public image URL has the form
\* https://{bucket}.s3.{region}.amazonaws.com/{key} with region the one resolved from
\* the bucket's location, None replaced by "us-east-1"; here for the URLs that
\* process_and_upload_image returns.
C11_UploadUrlsUseBucketLocation ==
    (UploadReturned /\ env.program = V1)
        => ReturnedUrls(outcome[1].uploaded[1])
              \subseteq { PublicUrl(PRODUCT_BUCKET, C11_BucketRegion, key) : key \in StoredKeys(s3ops) }

\* C11, for the URLs that get_public_image_urls_in_folder returns (under Spec)
C11_RouteUrlsUseBucketLocation ==
    (/\ pc = "done" /\ req.endpoint = "get_public_image_urls_in_folder"
     /\ resp.kind = "ok" /\ "bucket_name" \in DOMAIN resp.body)
        => LET location == replies[1].response.LocationConstraint
               region == IF location = None THEN US_EAST_1 ELSE location[1]
           IN  \A i \in 1..Len(resp.body.image_urls) :
                  resp.body.image_urls[i].url
                     = URL_SCHEME \o req.bucket_name[1] \o URL_S3 \o region \o URL_DOMAIN
                          \o resp.body.image_urls[i].key

\* C14: within one operation, once a storage call has failed the operation issues
\* no further storage call: a call that raised is the last call of the operation.
\* s3ops holds the calls of the last upload_images_to_s3 (under CreateSpec) and of
\* the last delete_product (under ProductSpec).
C14_NoCallAfterFailure ==
    \A i \in 1..Len(s3ops) : s3ops[i].raised => i = Len(s3ops)

\* C14, for the S3 routes (under Spec)
C14_RoutesStopAtFailure ==
    \A i \in 1..Len(replies) : replies[i].error # None => (i = Len(replies) /\ resp.kind # "ok")

\* C17: every image object a product creation stores is re-encoded to PNG: its
\* upload carries content type image/png, its key ends in .png and its body is PNG
\* data, whatever the format of the file.
C17_StoredImagesArePng ==
    \A i \in 1..Len(s3ops) :
       (s3ops[i].op = "upload_fileobj" /\ ~s3ops[i].raised)
          => /\ "ExtraArgs" \in DOMAIN s3ops[i].args
             /\ s3ops[i].args.ExtraArgs.ContentType = "image/png"
             /\ str_endswith(s3ops[i].args.Key, SUFFIX_PNG)
             /\ s3ops[i].args.Fileobj.format = "PNG"

\* the names of the image files st.session_state.product holds
HeldImages(product) ==
    LET Files(x) == IF x.py \in {"BytesIO", "list"} THEN {x.v[i].name : i \in 1..Len(x.v)} ELSE {}
    IN  IF "images" \in DOMAIN product
        THEN Files(product.images)
        ELSE Files(product.thumbnail) \cup Files(product.main_image)
                \cup Files(product.additional_images)

\* the names of the image files the calls ops stored
StoredImages(ops) == { ops[i].args.Fileobj.source : i \in {j \in 1..Len(ops) : ~ops[j].raised} }

\* C18: after a press of "Create Product" has uploaded images held in session
\* state, those images are no longer in session state.
C18_UploadedImagesDiscarded ==
    [][ (outcome' # outcome /\ outcome'[1].uploaded # None)
            => HeldImages(session'.product) \cap StoredImages(s3ops') = {}
      ]_vars

\* C22: GCSClient.create_bucket(name) returns, when the vendor create succeeds, a
\* bucket object whose name is the requested name; when the vendor create fails it
\* returns None and raises nothing, so that the route goes on to its else branch.
C22_CreateBucketReturn ==
    GcsDone
        => LET returned == GCSClient_create_bucket(req.bucket_name, "ok")
               failed(o) == GCSClient_create_bucket(req.bucket_name, o)
           IN  /\ returned.bucket = Some(req.bucket_name)
               /\ \A o \in GcsErrors : failed(o).bucket = None
               /\ replies[1].error = None
                    => /\ replies[1].response.name = req.bucket_name
                       /\ resp.kind = "ok" /\ resp.body.bucket_name = req.bucket_name
               /\ replies[1].error # None
                    => /\ resp.kind = "HTTPException"
                       /\ resp.detail \in StrHTTPException(HTTPException(400, GCS_FAILED))

C22_Witness ==
    /\ GcsDone
    /\ replies[1].error = Some("Conflict")
    /\ resp.kind = "HTTPException"
    /\ Len(calls) = 1 /\ calls[1].op = "create"

\* the last press of "Create Product" inserted a row
ProductCreated == outcome # None /\ outcome[1].ret /\ outcome[1].row # None

\* C25: the SKU shown to the user after a successful product creation
\* (last_created_sku and the preview's sku in product_mgmt_v1; the 'Generated SKU'
\* message in add_new_productv2) equals the SKU stored in the inserted row, for every
\* interleaving of clock ticks with the two generate_sku calls of one creation.
C25_ShownSkuIsStoredSku ==
    ProductCreated
        => /\ outcome[1].shown_sku = Some(outcome[1].row[1].sku)
           /\ (env.program = V1 /\ session.last_created_sku # None)
                => /\ session.last_created_sku = Some(outcome[1].row[1].sku)
                   /\ session.last_created_preview[1].sku = outcome[1].row[1].sku

\* the image URLs stored in a row of the table
RowUrls(row) ==
    (IF row.thumbnail_image # None THEN {row.thumbnail_image[1]} ELSE {})
        \cup (IF "main_image" \in DOMAIN row /\ row.main_image # None
              THEN {row.main_image[1]} ELSE {})
        \cup Range(row.additional_images)

\* the object with this key is an image of the row
ObjectOfRow(row, key) == \E url \in RowUrls(row) : str_endswith(url, SLASH \o key)

\* C26: once a product-creation operation has ended, every image object it stored
\* in the bucket belongs to a product row in the database: a failed insert, or a
\* thumbnail or main-image upload that fails part-way, leaves no object without a row.
C26_NoObjectWithoutRow ==
    outcome # None => \A key \in objects : \E row \in db : ObjectOfRow(row, key)

\* what handle_product_creation reports when it returns before insert_product
BeforeInsertMessages ==
    {"Please enter a product title", "Please upload a thumbnail image",
     "Failed to upload thumbnail image"}

\* the last press of "Create Product" had no thumbnail to upload, or its upload failed
NoThumbnailStored(held, ops) ==
    \/ ~Truthy(held.thumbnail)
    \/ ops = <<>>
    \/ ops[1].raised

\* C27: in product_mgmt_v1, a product row is inserted only after the thumbnail
\* upload has succeeded: handle_product_creation does not reach insert_product when
\* no thumbnail is present or its upload failed, and every row it inserts has a
\* thumbnail_image URL whose key lies under the folder ending in the row's unique_id.
C27_RowOnlyAfterThumbnail ==
    [][ (env.program = V1 /\ outcome' # outcome)
          => /\ NoThumbnailStored(outcome'[1].held, s3ops')
                  => /\ db' = db
                     /\ session'.product_creation_result \in {Some(m) : m \in BeforeInsertMessages}
             /\ \A row \in db' :
                  /\ row.thumbnail_image # None
                  /\ \E key \in objects' :
                        /\ str_endswith(row.thumbnail_image[1], SLASH \o key)
                        /\ str_startswith(key, sanitize_folder_name(row.title) \o <<"-">>
                                                  \o row.unique_id \o SLASH) ]_vars

C27_Witness ==
    /\ env.program = V1 /\ outcome # None
    /\ s3ops # <<>> /\ s3ops[1].raised
    /\ session.product_creation_result = Some("Failed to upload thumbnail image")
    /\ db # {}

\* C29: the 'Reset Form' action restores session_state.product to exactly the value
\* init_session_state gives it on first run (same keys, same values, None for
\* thumbnail and main_image and an empty list for additional_images in
\* product_mgmt_v1), from every reachable form state.
C29_ResetRestoresInitialProduct ==
    [][ ResetForm => session'.product = init_session_state(env.program).product ]_vars

---------------------------------------------------------------------------
(* Specification RoundTripSpec: products are created by                    *)
(* handle_product_creation and deleted by delete_product, against one      *)
(* products table and one product bucket                                   *)

RoundTripTitles ==
    { <<" ", "T", "e", "e", " ", " ", "N", "o", "!", "1">>, <<"a", "-", "b">>, <<"!">> }

\* upload_images_to_s3: f"{self.sanitize_folder_name(product_title)}-{unique_id}"
FolderOf(title, unique_id) == sanitize_folder_name(title) \o <<"-">> \o unique_id

RoundTripInit ==
    /\ db = {}
    /\ objects = {}
    /\ form = None
    /\ outcome = None
    /\ s3ops = <<>>
    /\ IdleS3
    /\ IdleSku
    /\ IdleCreate
    /\ IdleHealth
    /\ IdleRace

\* a product is created from a title and the files of the uploaders
RoundTripCreate ==
    /\ Presses < Len(Uuids)
    /\ \E title \in RoundTripTitles :
       \E files \in {f \in UploaderChoices : f.thumbnail # None} :
       \E o_thumbnail \in StorageOutcomes :
       \E o_main \in Drawn(o_thumbnail = "ok" /\ files.main_image # None, StorageOutcomes) :
       \E o_additional \in Drawn(o_thumbnail = "ok" /\ o_main = "ok",
                                 [1..Len(files.additional) -> StorageOutcomes]) :
       \E o_db \in Drawn(o_thumbnail = "ok", DbOutcomes) :
       \E widgets \in {[InitialWidgets(V1) EXCEPT !.title = title,
                                                  !.thumbnail_uploader = files.thumbnail,
                                                  !.main_image_uploader = files.main_image,
                                                  !.additional_uploader = files.additional]} :
       \E c \in {handle_product_creation(handle_image_upload(init_session_state(V1), widgets),
                                         widgets, Uuids[Presses + 1], now, now,
                                         o_thumbnail, o_main, o_additional, o_db, None)} :
          /\ db' = IF c.row = None THEN db ELSE db \cup {c.row[1]}
          /\ objects' = objects \cup StoredKeys(c.ops)
          /\ s3ops' = c.ops
          /\ outcome' = Some([press |-> Presses + 1, op |-> "create", ret |-> c.ret])
    /\ UNCHANGED <<req, pc, valid, calls, resp, skuArgs, now, sku, form, replies, env, ui,
                   session, db_client, procs>>

\* delete_product is called with the folder name of a product of the table, or with
\* another folder name
RoundTripDelete ==
    \E folder_name \in {FolderOf(row.title, row.unique_id) : row \in db} \cup {FOLDER_OTHER} :
    \E o_db \in DbOutcomes :
    \E o_list \in Drawn(o_db = "ok", StorageOutcomes) :
    \E o_delete \in Drawn(o_list = "ok", StorageOutcomes) :
    \E d \in {delete_product(folder_name, db, objects, o_db, o_list, o_delete)} :
       /\ form' = Some([folder_name |-> folder_name])
       /\ db' = d.db
       /\ objects' = d.objects
       /\ s3ops' = d.s3ops
       /\ outcome' = Some([press |-> Presses, op |-> "delete", ret |-> d.ret,
                           rowcount |-> d.rowcount])
       /\ UNCHANGED <<req, pc, valid, calls, resp, skuArgs, now, sku, replies, env, ui,
                      session, db_client, procs>>

RoundTripNext == RoundTripCreate \/ RoundTripDelete

RoundTripSpec == RoundTripInit /\ [][RoundTripNext]_vars

---------------------------------------------------------------------------
(* Claims about creation followed by deletion, checked under RoundTripSpec *)

\* C23: create-then-delete round trip: when a product was created through
\* upload_images_to_s3 and insert_product and delete_product is then called with its
\* folder name '{sanitized title}-{unique_id}', all vendor calls succeeding, the
\* correlation id derived from the folder name is the stored unique_id, the row is
\* deleted and no object of the product remains in the store.
C23_CreateDeleteRoundTrip ==
    [][ \A row \in db :
          ( /\ outcome' # outcome /\ outcome'[1].op = "delete"
            /\ form'[1].folder_name = FolderOf(row.title, row.unique_id)
            /\ outcome'[1].rowcount # None
            /\ \A i \in 1..Len(s3ops') : ~s3ops'[i].raised )
          => /\ LastSegment(form'[1].folder_name) = row.unique_id
             /\ row \notin db'
             /\ \A key \in objects' : ~ObjectOfRow(row, key) ]_vars

C23_Witness ==
    /\ outcome # None /\ outcome[1].op = "delete"
    /\ outcome[1].ret = [success |-> TRUE, message |-> MSG_DELETED]
    /\ form[1].folder_name = FolderOf(<<" ", "T", "e", "e", " ", " ", "N", "o", "!", "1">>, ID_7A)
    /\ Len(s3ops) = 2 /\ s3ops[2].op = "delete_objects" /\ Cardinality(s3ops[2].args.Objects) = 4
    /\ db = {} /\ objects = {}

---------------------------------------------------------------------------
(* streamlit/product_mgmt_v1.py and streamlit/test_streamlit.py:           *)
(* login_user, get_auth_headers, make_api_request and the Logout button    *)

\* what the API answers to an HTTP request: a response with a status code and a
\* JSON body, or no response (requests raises ConnectionError, a RequestException)
HttpResponse(status_code, json) == [kind |-> "response", status_code |-> status_code, json |-> json]

NoResponse == [kind |-> "ConnectionError"]

HttpRequest(via, method, url, headers, data) ==
    [via |-> via, method |-> method, url |-> url, headers |-> headers, data |-> data]

\* what a function of the page returns and leaves behind: st.session_state, the
\* HTTP requests it sent and the st.error it displayed
Returned(ret, state, requests, error) ==
    [ret |-> ret, session |-> state, calls |-> requests, error |-> error]

login_user(state, username, password, reply) ==
    LET post == HttpRequest("login_user", "POST", "/token", [x \in {} |-> x],
                            [username |-> username, password |-> password])
    IN  IF reply.kind # "response"
        THEN Returned(FALSE, state, <<post>>, Some("Login failed: {e}"))
        ELSE IF reply.status_code = 200
        THEN Returned(TRUE,
                      [state EXCEPT !.token = Some(reply.json.access_token),
                                    !.authenticated = TRUE],
                      <<post>>, None)
        ELSE Returned(FALSE, state, <<post>>, None)

get_auth_headers(state) ==
    IF state.token # None /\ state.token[1] # <<>>
    THEN [Authorization |-> <<"Bearer ">> \o state.token[1]]
    ELSE [x \in {} |-> x]

\* mutant: the request is sent whether or not the session is authenticated
make_api_request_unguarded(state, endpoint, method, reply) ==
    LET request == HttpRequest("make_api_request", method, endpoint, get_auth_headers(state), None)
    IN  IF reply.kind # "response"
        THEN Returned(None, state, <<request>>, Some("API Error: {e}"))
        ELSE IF reply.status_code = 401
        THEN Returned(None, [state EXCEPT !.authenticated = FALSE, !.token = None],
                      <<request>>, Some("Session expired. Please log in again."))
        ELSE IF reply.status_code >= 400
        THEN Returned(None, state, <<request>>, Some("API Error: {e}"))
        ELSE Returned(Some(reply.json), state, <<request>>, None)

\* the dict returned is Some(json), and None for the empty dict
make_api_request(state, endpoint, method, reply) ==
    LET request == HttpRequest("make_api_request", method, endpoint, get_auth_headers(state), None)
    IN  IF ~state.authenticated
        THEN Returned(None, state, <<>>, Some("Please log in first"))
        ELSE IF reply.kind # "response"
        THEN Returned(None, state, <<request>>, Some("API Error: {e}"))
        ELSE IF reply.status_code = 401
        THEN Returned(None, [state EXCEPT !.authenticated = FALSE, !.token = None],
                      <<request>>, Some("Session expired. Please log in again."))
        ELSE IF reply.status_code >= 400
        THEN Returned(None, state, <<request>>, Some("API Error: {e}"))
        ELSE Returned(Some(reply.json), state, <<request>>, None)

\* the Logout button of the sidebar
logout(state) ==
    Returned(None, [state EXCEPT !.token = None, !.authenticated = FALSE], <<>>, None)

---------------------------------------------------------------------------
(* Specification AuthSpec: login attempts, logouts and API requests of one *)
(* browser session of product_mgmt_v1.py or test_streamlit.py              *)

TEST_STREAMLIT == "test_streamlit"

\* the JWTs /token of api/s3_api.py issues
TOKEN_A == <<"e", "y", "J", ".", "a">>

TOKEN_B == <<"e", "y", "J", ".", "b">>

Credentials ==
    { [username |-> "admin", password |-> "secret"], [username |-> "admin", password |-> ""],
      [username |-> "", password |-> ""] }

\* what POST /token answers: a token, or 401 for wrong credentials, or nothing
TokenReplies ==
    { HttpResponse(200, [access_token |-> t, token_type |-> "bearer"]) : t \in {TOKEN_A, TOKEN_B} }
        \cup { HttpResponse(401, [detail |-> "Incorrect username or password"]), NoResponse }

ApiEndpoints == {"/buckets/", "/buckets/create", "/buckets/{bucket_name}/folders"}

\* what the API answers to a request of make_api_request
ApiReplies ==
    { HttpResponse(200, [buckets |-> <<>>]), HttpResponse(401, [detail |-> "Could not validate credentials"]),
      HttpResponse(500, [detail |-> "Internal Server Error"]), NoResponse }

AuthInit ==
    /\ env \in [program : {V1, TEST_STREAMLIT}]
    /\ session = [token |-> None, authenticated |-> FALSE]
    /\ calls = <<>>
    /\ outcome = None
    /\ req = None /\ pc = "idle" /\ valid = None /\ resp = None /\ replies = <<>>
    /\ ui = None
    /\ db = {} /\ objects = {} /\ form = None /\ s3ops = <<>>
    /\ IdleSku
    /\ IdleHealth
    /\ IdleRace

\* what an action of the page leaves behind
AuthStep(op, r, answers) ==
    /\ session' = r.session
    /\ calls' = r.calls
    /\ replies' = SubSeq(answers, 1, Len(r.calls))
    /\ outcome' = Some([op |-> op, ret |-> r.ret, error |-> r.error])
    /\ UNCHANGED <<req, pc, valid, resp, skuArgs, now, sku, db, objects, form, s3ops, env, ui,
                   db_client, procs>>

\* the login form, shown while the session is not authenticated, is submitted
Login ==
    /\ ~session.authenticated
    /\ \E c \in Credentials, reply \in TokenReplies :
          AuthStep("login_user", login_user(session, c.username, c.password, reply), <<reply>>)

\* the Logout button, shown while the session is authenticated, is pressed
Logout ==
    /\ session.authenticated
    /\ AuthStep("logout", logout(session), <<>>)

\* make_api_request is called
ApiRequest ==
    \E endpoint \in ApiEndpoints, method \in {"GET", "POST"} :
    \E reply \in Drawn(session.authenticated, ApiReplies) :
       AuthStep("make_api_request", make_api_request(session, endpoint, method, reply), <<reply>>)

AuthNext == Login \/ Logout \/ ApiRequest

AuthSpec == AuthInit /\ [][AuthNext]_vars

---------------------------------------------------------------------------
(* Claims about authentication, checked under AuthSpec *)

\* C28: in every state reachable through login attempts, logouts and API requests
\* (including requests answered with 401), session_state.authenticated is true only
\* if session_state.token holds a token; a 401 response and a logout each leave
\* authenticated false and token None; and make_api_request sends no HTTP request
\* while authenticated is false.
C28_AuthenticatedOnlyWithToken ==
    [][ /\ session'.authenticated => (session'.token # None /\ session'.token[1] # <<>>)
        /\ ( outcome' # None /\ outcome'[1].op = "make_api_request" /\ replies' # <<>>
             /\ replies'[1].kind = "response" /\ replies'[1].status_code = 401 )
              => session' = [token |-> None, authenticated |-> FALSE]
        /\ (outcome' # None /\ outcome'[1].op = "logout")
              => session' = [token |-> None, authenticated |-> FALSE]
        /\ (outcome' # None /\ outcome'[1].op = "make_api_request" /\ ~session.authenticated)
              => calls' = <<>>
      ]_vars

\* a request of an authenticated session was answered with 401
C28_Witness ==
    /\ outcome # None /\ outcome[1].op = "make_api_request"
    /\ Len(calls) = 1 /\ calls[1].headers = [Authorization |-> <<"Bearer ">> \o TOKEN_B]
    /\ replies[1].kind = "response" /\ replies[1].status_code = 401
    /\ session = [token |-> None, authenticated |-> FALSE]

---------------------------------------------------------------------------
(* utils/db_utils.py: PostgresClient.__init__, and main.py: the routes     *)
(* GET / and GET /db/health                                                *)

\* s.split(sep) for a one-character sep
RECURSIVE str_split_on(_, _)
str_split_on(s, sep) ==
    IF \A i \in 1..Len(s) : s[i] # sep THEN <<s>>
    ELSE LET k == CHOOSE i \in 1..Len(s) : s[i] = sep /\ \A j \in 1..(i - 1) : s[j] # sep
         IN  <<SubSeq(s, 1, k - 1)>> \o str_split_on(SubSeq(s, k + 1, Len(s)), sep)

\* s.replace(old, "")
RECURSIVE str_replace_empty(_, _)
str_replace_empty(s, old) ==
    IF s = <<>> THEN <<>>
    ELSE IF str_startswith(s, old) THEN str_replace_empty(SubSeq(s, Len(old) + 1, Len(s)), old)
    ELSE <<s[1]>> \o str_replace_empty(Tail(s), old)

DigitValue(c) == CHOOSE d \in 0..9 : DigitChars[d + 1] = c

\* int(s) for a string of decimal digits; None when int raises ValueError
RECURSIVE py_int(_)
py_int(s) ==
    IF s = <<>> \/ \E i \in 1..Len(s) : ~IsDigitChar(s[i]) THEN None
    ELSE IF Len(s) = 1 THEN Some(DigitValue(s[1]))
    ELSE Some(py_int(SubSeq(s, 1, Len(s) - 1))[1] * 10 + DigitValue(s[Len(s)]))

POSTGRES_SCHEME == <<"p", "o", "s", "t", "g", "r", "e", "s", ":", "/", "/">>

\* the constructor: the client it builds, or the exception it raises
Constructed(client) == [raised |-> None, client |-> Some(client)]

ConstructorRaised(exception) == [raised |-> Some(exception), client |-> None]

PostgresClient_init(url) ==
    IF url = None \/ url = Some(<<>>) THEN ConstructorRaised("ValueError")
    ELSE LET url_parts == str_split_on(str_replace_empty(url[1], POSTGRES_SCHEME), "@")
             user_pass == str_split_on(url_parts[1], ":")
         IN  IF Len(url_parts) < 2 THEN ConstructorRaised("IndexError")
             ELSE LET host_port_db == str_split_on(url_parts[2], "/")
                      host_port == str_split_on(host_port_db[1], ":")
                  IN  IF Len(user_pass) < 2 \/ Len(host_port) < 2 THEN ConstructorRaised("IndexError")
                      ELSE IF py_int(host_port[2]) = None THEN ConstructorRaised("ValueError")
                      ELSE IF Len(host_port_db) < 2 THEN ConstructorRaised("IndexError")
                      ELSE Constructed([config |-> [user |-> user_pass[1],
                                                    password |-> user_pass[2],
                                                    host |-> host_port[1],
                                                    port |-> py_int(host_port[2])[1],
                                                    database |-> str_split_on(host_port_db[2], "?")[1],
                                                    ssl_context |-> TRUE],
                                        conn |-> None])

\* the attributes of a PostgresClient other than those its constructor sets
PostgresClientMethods ==
    {"connect", "execute_query", "execute_transaction", "health_check", "close", "create_table",
     "drop_table", "update_table", "insert_record", "get_table_info", "count_records"}

\* hasattr(client, name)
HasAttr(client, name) == name \in DOMAIN client \/ name \in PostgresClientMethods

\* the names main.py imports or defines
MainNames ==
    {"logging", "FastAPI", "HTTPException", "OperationalError", "SQLAlchemyError",
     "PostgresClient", "logger", "app", "db_client", "hello_world", "database_health_check"}

\* the exceptions of sqlalchemy.exc the database calls raise: all are SQLAlchemyError
SQLAlchemyErrors == {"OperationalError", "InterfaceError", "ProgrammingError"}

hello_world == NotValidated(<<>>, OkResponse(200, [message |-> "AWS - Hello World"]))

\* the except clauses of database_health_check; e is the exception raised in its try block
HealthError(e, str_e) ==
    IF e = "OperationalError" THEN HTTPException(503, <<"Database connection failed: ", str_e>>)
    ELSE IF e \in SQLAlchemyErrors THEN HTTPException(500, <<"Database error: ", str_e>>)
    ELSE HTTPException(500, <<"Database health check error: ", str_e>>)

\* the route GET /db/health; names are the names bound in its module, o_connect and
\* o_execute what engine.connect() and connection.execute() do
database_health_check(client, names, o_connect, o_execute) ==
    LET connect == [op |-> "connect"]
        execute == [op |-> "execute", statement |-> "SELECT 1"]
    IN  IF ~HasAttr(client, "engine")
        THEN NotValidated(<<>>, HealthError("AttributeError",
                                            "'PostgresClient' object has no attribute 'engine'"))
        ELSE IF o_connect # "ok" THEN NotValidated(<<connect>>, HealthError(o_connect, o_connect))
        ELSE IF "text" \notin names
        THEN NotValidated(<<connect>>, HealthError("NameError", "name 'text' is not defined"))
        ELSE IF o_execute # "ok"
        THEN NotValidated(<<connect, execute>>, HealthError(o_execute, o_execute))
        ELSE NotValidated(<<connect, execute>>,
                          OkResponse(200, [status |-> "healthy",
                                           message |-> "Database connection successful"]))

---------------------------------------------------------------------------
(* Specification HealthSpec: main.py is imported, which constructs the     *)
(* PostgresClient, and one request is made to one of its routes            *)

MAIN == "main"

URL_USER_PASS == {<<"u", ":", "p">>, <<"u">>}

URL_HOST_PORT == {<<"h", ":", "5", "4", "3", "2">>, <<"h", ":", "x">>, <<"h">>}

URL_DATABASE == {<<"/", "d">>, <<"/", "d", "?", "s", "s", "l", "m", "o", "d", "e", "=", "1">>, <<>>}

\* the values of POSTGRES_URL: unset, empty, and URLs with and without each part
PostgresUrls ==
    {None, Some(<<>>), Some(POSTGRES_SCHEME \o <<"u", ":", "p">>)}
    \cup { Some(scheme \o up \o <<"@">> \o hp \o d) :
             scheme \in {POSTGRES_SCHEME, <<>>}, up \in URL_USER_PASS, hp \in URL_HOST_PORT,
             d \in URL_DATABASE }

\* the database server: what a connection attempt and a SELECT 1 do
DatabaseConditions ==
    { [connect |-> c, execute |-> e] :
        c \in {"ok"} \cup SQLAlchemyErrors, e \in {"ok"} \cup SQLAlchemyErrors }

MainRequests == {[endpoint |-> "hello_world"], [endpoint |-> "database_health_check"]}

HealthInit ==
    /\ env \in [program : {MAIN}, POSTGRES_URL : PostgresUrls, database : DatabaseConditions]
    /\ db_client = PostgresClient_init(env.POSTGRES_URL)
    /\ req \in MainRequests
    /\ pc = "pending"
    /\ valid = None
    /\ calls = <<>>
    /\ resp = None
    /\ replies = <<>>
    /\ ui = None
    /\ session = None
    /\ IdleSku
    /\ IdleProduct
    /\ IdleRace

\* the application serves requests when importing main.py raised nothing
Serving == db_client.raised = None

HelloWorld ==
    /\ Serving /\ pc = "pending" /\ req.endpoint = "hello_world"
    /\ Respond(hello_world, <<>>)

DatabaseHealthCheck ==
    /\ Serving /\ pc = "pending" /\ req.endpoint = "database_health_check"
    /\ Respond(database_health_check(db_client.client[1], MainNames,
                                     env.database.connect, env.database.execute),
               <<Reply(env.database.connect, "connection"),
                 Reply(env.database.execute, <<1>>)>>)

HealthNext == HelloWorld \/ DatabaseHealthCheck

HealthSpec == HealthInit /\ [][HealthNext]_vars

---------------------------------------------------------------------------
(* Claims about the routes of main.py, checked under HealthSpec *)

HealthDone == pc = "done" /\ req.endpoint = "database_health_check"

\* C21: GET /db/health responds 200 with status "healthy" when the database accepts
\* a connection and a SELECT 1, responds 503 when the connection attempt fails with
\* an operational error, and responds 500 for any other database error.
C21_HealthStatus ==
    HealthDone
        => /\ (env.database.connect = "ok" /\ env.database.execute = "ok")
                => (resp.kind = "ok" /\ resp.status = 200 /\ resp.body.status = "healthy")
           /\ env.database.connect = "OperationalError" => resp.status = 503
           /\ (env.database.connect \in SQLAlchemyErrors \ {"OperationalError"})
                => resp.status = 500

---------------------------------------------------------------------------
(* delete_product step by step (product_mgmt_v1.py:350-407), for calls that *)
(* run at the same time. Each Streamlit session runs its script in a thread *)
(* of its own and builds its own ProductManager, so two sessions can be in  *)
(* delete_product together; they share the products table and the bucket.   *)

\* one call in progress: its position, its argument and its locals. matched is
\* the set of rows its DELETE has removed, which the database keeps locked until
\* the transaction ends; ret is None until the call returns
Call(at, folder_name, matched, rowcount, delete_keys, ops, ret) ==
    [pc |-> at, folder_name |-> folder_name, matched |-> matched, rowcount |-> rowcount,
     delete_keys |-> delete_keys, ops |-> ops, ret |-> ret]

Return(call, success, message) ==
    [call EXCEPT !.pc = "done", !.ret = Some([success |-> success, message |-> message])]

\* an exception of the database: the session is closed, which rolls the
\* transaction back, and the outer handlers return the error
DatabaseRaised(call, o_db) ==
    Return([call EXCEPT !.matched = {}, !.rowcount = None], FALSE,
           IF o_db = "SQLAlchemyError" THEN MSG_DB_ERROR ELSE MSG_ERROR)

\* session.execute(delete_stmt, ...): rows is the committed table
execute_delete(call, rows, o_db) ==
    LET matched == MatchingRows(rows, LastSegment(call.folder_name)) IN
    IF o_db # "ok"
    THEN DatabaseRaised(call, o_db)
    ELSE [call EXCEPT !.pc = "commit", !.matched = matched,
                      !.rowcount = Some(Cardinality(matched))]

commit_delete_ignores_rowcount(call, o_db) ==
    IF o_db # "ok"
    THEN DatabaseRaised(call, o_db)
    ELSE [call EXCEPT !.pc = "list"]

\* session.commit() and the test of result.rowcount
commit_delete(call, o_db) ==
    IF o_db # "ok"
    THEN DatabaseRaised(call, o_db)
    ELSE IF call.rowcount = Some(0)
    THEN Return(call, FALSE, MSG_NOT_FOUND)
    ELSE [call EXCEPT !.pc = "list"]

\* the paginator over list_objects_v2: keys is the bucket at that moment
list_folder(call, keys, o_list) ==
    LET prefix == call.folder_name \o SLASH
        delete_keys == KeysUnder(keys, prefix)
        listed(raised) ==
            [call EXCEPT !.ops = Append(@, StorageCall("list_objects_v2",
                                                       [Prefix |-> prefix], raised))]
    IN  IF o_list # "ok"
        THEN Return(listed(TRUE), TRUE, MSG_S3_FAILED)
        ELSE IF delete_keys = {}
        THEN Return(listed(FALSE), TRUE, MSG_DELETED)
        ELSE [listed(FALSE) EXCEPT !.pc = "delete", !.delete_keys = delete_keys]

\* s3_client.delete_objects on the keys that were listed
delete_folder(call, o_delete) ==
    LET deleted(raised) ==
            [call EXCEPT !.ops = Append(@, StorageCall("delete_objects",
                                                       [Objects |-> call.delete_keys],
                                                       raised))]
    IN  IF o_delete # "ok"
        THEN Return(deleted(TRUE), TRUE, MSG_S3_FAILED)
        ELSE Return(deleted(FALSE), TRUE, MSG_DELETED)

---------------------------------------------------------------------------
(* Specification RaceSpec: two calls of delete_product with one folder     *)
(* name, interleaved at their database and storage statements              *)

RaceProcs == {1, 2}

RaceFolders == {FOLDER_STRENGTH, FOLDER_OTHER, FOLDER_CAP, ID_7A}

RaceInit ==
    /\ db \in SUBSET ProductRows
    /\ objects \in SUBSET ProductKeys
    /\ \E folder_name \in RaceFolders :
          procs = [p \in RaceProcs |-> Call("execute", folder_name, {}, None, {}, <<>>, None)]
    /\ form = None
    /\ outcome = None
    /\ s3ops = <<>>
    /\ IdleS3
    /\ IdleSku
    /\ IdleCreate
    /\ IdleHealth

\* a DELETE waits while another transaction holds a row it would delete; when
\* that transaction has ended the statement sees the table it left
Blocked(p) ==
    \E q \in RaceProcs \ {p} :
       /\ procs[q].pc = "commit"
       /\ MatchingRows(procs[q].matched, LastSegment(procs[p].folder_name)) # {}

RaceFrame ==
    UNCHANGED <<req, pc, valid, calls, resp, skuArgs, now, sku, form, outcome, s3ops,
                replies, env, ui, session, db_client>>

ExecuteDelete(p) ==
    /\ procs[p].pc = "execute"
    /\ ~Blocked(p)
    /\ \E o_db \in DbOutcomes : procs' = [procs EXCEPT ![p] = execute_delete(@, db, o_db)]
    /\ UNCHANGED <<db, objects>>
    /\ RaceFrame

CommitDelete(p) ==
    /\ procs[p].pc = "commit"
    /\ \E o_db \in DbOutcomes :
          /\ procs' = [procs EXCEPT ![p] = commit_delete(@, o_db)]
          /\ db' = IF o_db = "ok" THEN db \ procs[p].matched ELSE db
    /\ UNCHANGED objects
    /\ RaceFrame

ListFolder(p) ==
    /\ procs[p].pc = "list"
    /\ \E o_list \in StorageOutcomes :
          procs' = [procs EXCEPT ![p] = list_folder(@, objects, o_list)]
    /\ UNCHANGED <<db, objects>>
    /\ RaceFrame

DeleteFolderObjects(p) ==
    /\ procs[p].pc = "delete"
    /\ \E o_delete \in StorageOutcomes :
          /\ procs' = [procs EXCEPT ![p] = delete_folder(@, o_delete)]
          /\ objects' = IF o_delete = "ok" THEN objects \ procs[p].delete_keys ELSE objects
    /\ UNCHANGED db
    /\ RaceFrame

RaceNext ==
    \E p \in RaceProcs :
       \/ ExecuteDelete(p)
       \/ CommitDelete(p)
       \/ ListFolder(p)
       \/ DeleteFolderObjects(p)

RaceSpec == RaceInit /\ [][RaceNext]_vars

---------------------------------------------------------------------------
(* Claims about concurrent calls of delete_product, checked under RaceSpec *)

\* the rows of the table, as it was when the calls began, that the calls' folder
\* name selects: those still in the table and those a call has deleted
RaceRows ==
    MatchingRows(db \cup UNION {procs[p].matched : p \in RaceProcs},
                 LastSegment(procs[1].folder_name))

BothReturned == \A p \in RaceProcs : procs[p].pc = "done"

DatabaseAnswered == \A p \in RaceProcs : procs[p].ret[1].message \notin {MSG_DB_ERROR, MSG_ERROR}

====
